---- MODULE Spec2Model ----
(***************************************************************************)
(* The AutoML dataset container of src/code/auto_ml/auto_ml.py: the raw    *)
(* table, the processed table, the subset index and the three-stage        *)
(* preprocessing pipeline (encoding, imputation, normalization).           *)
(*                                                                         *)
(* A cell of a table is a float.  Floats are modelled exactly: a cell is   *)
(* a record [n, d, r]; with r = 1 it is the rational n/d (d = 0 gives the  *)
(* IEEE specials: 0/0 is NaN, the missing value; 1/0 and -1/0 are the      *)
(* infinities); with r = 2 it is sign(n) * sqrt(|n| / d), the shape of a   *)
(* value divided by a standard deviation.                                  *)
(*                                                                         *)
(* subsets['train'] and subsets['test'] are modelled as sets of row        *)
(* labels: every operation modelled here selects rows by label.            *)
(***************************************************************************)
EXTENDS Integers, Sequences, FiniteSets, TLC

\* ------------------------------------------------------------------ bounds
\* Largest number of rows of a table.
MaxRows == 3

\* Largest number of set_data and train_test_split calls that return in one
\* behaviour.
MaxEdits == 1

\* ------------------------------------------------------------------- cells
Abs(a) == IF a < 0 THEN -a ELSE a

Sgn(a) == IF a < 0 THEN -1 ELSE IF a = 0 THEN 0 ELSE 1

RECURSIVE GCD(_, _)
GCD(a, b) == IF b = 0 THEN a ELSE GCD(b, a % b)

\* The float a / b.
Rat(a, b) ==
    IF b = 0 THEN [n |-> Sgn(a), d |-> 0, r |-> 1]
    ELSE LET g == GCD(Abs(a), Abs(b))
             s == Sgn(b)
         IN  [n |-> (s * a) \div g, d |-> Abs(b) \div g, r |-> 1]

RECURSIVE RootFrom(_, _)
RootFrom(k, i) == IF i * i >= k THEN i ELSE RootFrom(k, i + 1)

\* The least i with i * i >= k.
CeilSqrt(k) == RootFrom(k, 0)

IsSquare(k) == CeilSqrt(k) * CeilSqrt(k) = k

\* The float sign(a) * sqrt(|a| / b), b >= 0.
Root(a, b) ==
    LET q == Rat(a, b)
    IN  IF q.d = 0 \/ q.n = 0 THEN q
        ELSE IF IsSquare(Abs(q.n)) /\ IsSquare(q.d)
             THEN Rat(Sgn(q.n) * CeilSqrt(Abs(q.n)), CeilSqrt(q.d))
             ELSE [q EXCEPT !.r = 2]

Num(i) == Rat(i, 1)

NaN == Rat(0, 0)

IsNaN(x) == x.d = 0 /\ x.n = 0

IsFinite(x) == x.d # 0

RAdd(x, y) == Rat(x.n * y.d + y.n * x.d, x.d * y.d)

RSub(x, y) == Rat(x.n * y.d - y.n * x.d, x.d * y.d)

RDiv(x, y) == Rat(x.n * y.d, x.d * y.n)

\* x < y for finite rationals.
RLess(x, y) == x.n * y.d < y.n * x.d

\* ------------------------------------------------------------- data frames
\* A pandas DataFrame: row labels, ordered column labels, one cell per
\* (row, column).
Range(s) == {s[k] : k \in DOMAIN s}

DataFrame(index, columns, val) ==
    [index |-> index, columns |-> columns,
     val |-> [r \in index |-> [c \in Range(columns) |-> val[r][c]]]]

\* df.loc[instances, columns] with labels that all exist.
Loc(df, instances, columns) == DataFrame(instances, columns, df.val)

\* ------------------------------------------------------------------- state
VARIABLES
    data,            \* self.data: the raw table
    processed_data,  \* self.processed_data: the processed table
    subsets,         \* self.subsets: 'X', 'y' (when labelled), 'train', 'test'
    feat_type,       \* self.feat_type: one type label per feature column
    pc,              \* where the running process_data call stands
    args,            \* the running process_data call: its arguments, and
                     \* whether its reset changed the processed table
    prev,            \* the processed table when the stage that ran last started
    lastOp,          \* the last call made on the dataset and how it ended
    edits,           \* number of set_data and train_test_split calls that returned
    info,            \* self.info: the info dictionary
    descriptors,     \* self.descriptors: the meta-features computed so far
    comparator,      \* the Comparator object and its second dataset
    files            \* the directory save() writes to

vars == <<data, processed_data, subsets, feat_type, pc, args, prev, lastOp,
          edits, info, descriptors, comparator, files>>

\* -------------------------------------------------------------- input files
\* B_feat.name and B_label.name.
feat_name == <<"f1", "f2">>

label_name == <<"y">>

\* The cell of row i of the .data file(s): f1 holds categories 1, 2, 1, ...
\* and f2 holds the measurements 1, 4, 9, ...
BaseCell(i, c) == IF c = "f1" THEN Num(1 + (i % 2)) ELSE Num((i + 1) * (i + 1))

\* The cell of row i of the .solution file(s).
LabelCell(i) == Num(i % 2)

NoHole == <<-1, "f1">>

\* The holes (missing cells) a .data file may have: none, or one in its
\* first row.
Holes == {NoHole} \cup ({0} \X Range(feat_name))

\* The contents of B_feat.type.
TypeFiles ==
    { <<"Binary", "Numerical">>,
      <<"Categorical", "Numerical">>,
      <<"Numerical", "Numerical">> }

\* test_size arguments, as fractions <<p, q>>.
TestSizes == { <<0, 1>>, <<1, 5>>, <<1, 2>>, <<1, 1>> }

\* pd.DataFrame(X, columns=feat_name), and pd.concat with the labels when
\* nY > 0: rows are aligned on the row label, absent cells are NaN.
LoadTable(nX, hole, nY) ==
    LET n       == IF nY > nX THEN nY ELSE nX
        columns == IF nY > 0 THEN feat_name \o label_name ELSE feat_name
        cell(r, c) ==
            IF c \in Range(feat_name)
            THEN IF r >= nX THEN NaN
                 ELSE IF hole = <<r, c>> THEN NaN ELSE BaseCell(r, c)
            ELSE IF r >= nY THEN NaN ELSE LabelCell(r)
    IN  [index |-> 0 .. n - 1, columns |-> columns,
         val |-> [r \in 0 .. n - 1 |-> [c \in Range(columns) |-> cell(r, c)]]]

\* ------------------------------------------------------- train_test_split
\* int(test_size * len(index)) for a non-negative test_size.
SplitPoint(test_size, n) == (test_size[1] * n) \div test_size[2]

\* len(shuffled_index[:split]).
TestCount(split, n) == IF split > n THEN n ELSE split

\* The (train, test) pairs train_test_split can draw: random.sample gives any
\* order of the index; the first `split` labels are test, the rest train.
Splits(index, test_size) ==
    LET k == TestCount(SplitPoint(test_size, Cardinality(index)),
                       Cardinality(index))
    IN  { [train |-> index \ t, test |-> t] :
            t \in {u \in SUBSET index : Cardinality(u) = k} }

\* -------------------------------------------------------------------- keys
\* The keys tried on get_data and set_data.
RecognizedKeys ==
    {"", "all", "data", "X", "y", "train", "test",
     "X_train", "X_test", "y_train", "y_test"}

UnknownKeys == {"foo", "X_foo", "foo_train", "train_X", "train_test",
                "test_train", "X_train_test"}

Keys == RecognizedKeys \cup UnknownKeys

\* The keys set_data is called with.
SetKeys == {"X_train", "foo"}

\* s.split('_').
KeyParts(s) ==
    CASE s = "X_train"      -> <<"X", "train">>
      [] s = "X_test"       -> <<"X", "test">>
      [] s = "y_train"      -> <<"y", "train">>
      [] s = "y_test"       -> <<"y", "test">>
      [] s = "X_foo"        -> <<"X", "foo">>
      [] s = "foo_train"    -> <<"foo", "train">>
      [] s = "train_X"      -> <<"train", "X">>
      [] s = "train_test"   -> <<"train", "test">>
      [] s = "test_train"   -> <<"test", "train">>
      [] s = "X_train_test" -> <<"X", "train", "test">>
      [] OTHER              -> <<s>>

Raise(e) == [status |-> e]

\* The selection get_data and set_data compute from the key s: which value
\* they bind to `instances` and which to `columns` ("index" and "columns"
\* stand for self.data.index.values and self.data.columns.values).
Selection(s, sub) ==
    LET parts == KeyParts(s)
        whole == [status |-> "ok", instances |-> "index", columns |-> "columns"]
    IN  IF Len(parts) > 1
        THEN IF Len(parts) # 2 THEN Raise("ValueError")
             ELSE IF parts[2] \notin DOMAIN sub \/ parts[1] \notin DOMAIN sub
                  THEN Raise("KeyError")
                  ELSE [status |-> "ok", instances |-> parts[2],
                        columns |-> parts[1]]
        ELSE CASE s = "X" -> [whole EXCEPT !.columns = "X"]
               [] s = "y" -> IF "y" \in DOMAIN sub
                             THEN [whole EXCEPT !.columns = "y"]
                             ELSE Raise("KeyError")
               [] s = "train" -> [whole EXCEPT !.instances = "train"]
               [] s = "test"  -> [whole EXCEPT !.instances = "test"]
               [] OTHER -> IF s \in {"", "all", "data"} THEN whole
                           ELSE Raise("UnboundLocalError")

\* The labels .loc[instances, columns] looks up, or the error it raises: row
\* labels are integers and column labels are names, so a non-empty list of
\* the other kind names no existing label (KeyError); an empty list selects
\* nothing and raises nothing.
LocLabels(df, sel, sub) ==
    LET rowsOk == \/ sel.instances \in {"index", "train", "test"}
                  \/ sub[sel.instances] = <<>>
        colsOk == \/ sel.columns \in {"columns", "X", "y"}
                  \/ sub[sel.columns] = {}
        rows   == CASE sel.instances = "index" -> df.index
                    [] sel.instances \in {"train", "test"} -> sub[sel.instances]
                    [] OTHER -> {}
        cols   == CASE sel.columns = "columns" -> df.columns
                    [] sel.columns \in {"X", "y"} -> sub[sel.columns]
                    [] OTHER -> <<>>
    IN  IF rowsOk /\ colsOk /\ rows \subseteq df.index
        THEN [status |-> "ok", rows |-> rows, cols |-> cols]
        ELSE Raise("KeyError")

\* get_data without its `processed` switch: the variant that always reads the
\* raw table.  GetDataResolvesKeys tells it from get_data.
GetDataOfRaw(raw, processed_table, sub, s, processed) ==
    LET sel == Selection(s, sub)
    IN  IF sel.status # "ok" THEN sel
        ELSE LET lab == LocLabels(raw, sel, sub)
             IN  IF lab.status # "ok" THEN lab
                 ELSE [status |-> "ok", frame |-> Loc(raw, lab.rows, lab.cols)]

\* get_data(s, processed) on a dataset: the frame df.loc[rows, cols] of the
\* table `processed` selects, or the error raised.
GetDataOf(raw, processed_table, sub, s, processed) ==
    LET sel == Selection(s, sub)
        df  == IF processed THEN processed_table ELSE raw
    IN  IF sel.status # "ok" THEN sel
        ELSE LET lab == LocLabels(df, sel, sub)
             IN  IF lab.status # "ok" THEN lab
                 ELSE [status |-> "ok", frame |-> Loc(df, lab.rows, lab.cols)]

get_data(s, processed) == GetDataOf(data, processed_data, subsets, s, processed)

\* The assignment df.loc[rows] = values, which writes every column of the
\* selected rows.  SetDataWritesSelection tells it from df.loc[rows, cols].
AssignRows(df, rows, cols, values) ==
    [df EXCEPT !.val =
        [r \in df.index |-> [c \in Range(df.columns) |->
            IF r \in rows
            THEN IF values.kind = "scalar" THEN values.v
                 ELSE IF r \in values.f.index /\ c \in Range(values.f.columns)
                      THEN values.f.val[r][c] ELSE NaN
            ELSE df.val[r][c]]]]

\* df.loc[rows, cols] = values: a scalar is written to every selected cell; a
\* frame is aligned on row and column labels, a selected cell it does not
\* hold becomes NaN.
Assign(df, rows, cols, values) ==
    LET new(r, c) ==
            IF values.kind = "scalar" THEN values.v
            ELSE IF r \in values.f.index /\ c \in Range(values.f.columns)
                 THEN values.f.val[r][c] ELSE NaN
    IN  [df EXCEPT !.val =
            [r \in df.index |-> [c \in Range(df.columns) |->
                IF r \in rows /\ c \in Range(cols) THEN new(r, c)
                ELSE df.val[r][c]]]]

Scalar(x) == [kind |-> "scalar", v |-> x]

Frame(f) == [kind |-> "frame", f |-> f]

\* set_data(values, s, processed): the table written and its new value, or
\* the error raised (nothing is written then).
SetDataOf(raw, processed_table, sub, values, s, processed) ==
    LET sel == Selection(s, sub)
        df  == IF processed THEN processed_table ELSE raw
    IN  IF sel.status # "ok" THEN sel
        ELSE LET lab == LocLabels(df, sel, sub)
             IN  IF lab.status # "ok" THEN lab
                 ELSE [status |-> "ok",
                       table |-> Assign(df, lab.rows, lab.cols, values)]

\* ------------------------------------------ column statistics (skip NaN)
RMul(x, y) == Rat(x.n * y.n, x.d * y.d)

\* The square of a cell, as a rational.
Square(x) == IF x.r = 2 THEN Rat(Abs(x.n), x.d) ELSE RMul(x, x)

\* The rows of frame f whose cell in `column` is not missing.
Present(f, column) == {r \in f.index : ~IsNaN(f.val[r][column])}

RECURSIVE SumOver(_, _)
SumOver(g, S) ==
    IF S = {} THEN Num(0)
    ELSE LET r == CHOOSE q \in S : TRUE
         IN  RAdd(g[r], SumOver(g, S \ {r}))

ColMean(f, column) ==
    LET S == Present(f, column)
    IN  RDiv(SumOver([r \in S |-> f.val[r][column]], S), Num(Cardinality(S)))

\* The sample standard deviation (the one pandas computes).
ColStd(f, column) ==
    LET S  == Present(f, column)
        m  == ColMean(f, column)
        sq == [r \in S |-> Square(RSub(f.val[r][column], m))]
        v  == RDiv(SumOver(sq, S), Num(Cardinality(S) - 1))
    IN  IF S = {} THEN NaN ELSE Root(v.n, v.d)

ColMin(f, column) ==
    LET S == Present(f, column)
    IN  IF S = {} THEN NaN
        ELSE f.val[CHOOSE r \in S :
                     \A q \in S : ~RLess(f.val[q][column], f.val[r][column])][column]

ColMax(f, column) ==
    LET S == Present(f, column)
    IN  IF S = {} THEN NaN
        ELSE f.val[CHOOSE r \in S :
                     \A q \in S : ~RLess(f.val[r][column], f.val[q][column])][column]

\* The k-th smallest non-missing cell of the column, k in 1 .. |Present|.
Kth(f, column, k) ==
    LET S == Present(f, column)
        before(q, r) == \/ RLess(f.val[q][column], f.val[r][column])
                        \/ f.val[q][column] = f.val[r][column] /\ q < r
        r0 == CHOOSE r \in S : Cardinality({q \in S : before(q, r)}) = k - 1
    IN  f.val[r0][column]

ColMedian(f, column) ==
    LET m == Cardinality(Present(f, column))
    IN  IF m = 0 THEN NaN
        ELSE IF m % 2 = 1 THEN Kth(f, column, (m + 1) \div 2)
        ELSE RDiv(RAdd(Kth(f, column, m \div 2), Kth(f, column, m \div 2 + 1)),
                  Num(2))

\* The most frequent non-missing cell; among equally frequent ones the least.
ColMost(f, column) ==
    LET S == Present(f, column)
        count(r) == Cardinality({q \in S : f.val[q][column] = f.val[r][column]})
        r0 == CHOOSE r \in S : \A q \in S :
                \/ count(q) < count(r)
                \/ count(q) = count(r)
                   /\ ~RLess(f.val[q][column], f.val[r][column])
    IN  IF S = {} THEN NaN ELSE f.val[r0][column]

\* Frame f with every cell of `column` replaced by g[cell's row].
WithColumn(f, column, g) ==
    [f EXCEPT !.val = [r \in f.index |->
                         [f.val[r] EXCEPT ![column] = g[r]]]]

\* Frame f with the missing cells of `column` replaced by x.
FillNa(f, column, x) ==
    WithColumn(f, column,
               [r \in f.index |-> IF IsNaN(f.val[r][column]) THEN x
                                  ELSE f.val[r][column]])

\* --------------------------------------------- the encoding module (label)
\* No mapping given: the function fits one.
NoMapping == [fitted |-> FALSE, m |-> <<>>]

\* The code of a value the mapping does not hold.
UnknownCode == 0 - 1

\* The mapping an encoder fits on frame f: the distinct non-missing values of
\* the column, numbered 0 .. k-1 in the order of their first appearance (rows in index
\* order).
FitLabels(f, column) ==
    LET D == {f.val[r][column] : r \in Present(f, column)}
        first(w) == CHOOSE r \in Present(f, column) :
                        /\ f.val[r][column] = w
                        /\ \A q \in Present(f, column) :
                               f.val[q][column] = w => r <= q
    IN  [fitted |-> TRUE,
         m |-> [w \in D |-> Cardinality({u \in D : first(u) < first(w)})]]

\* encoding.label(f, column, mapping): the encoded frame and the mapping used.
\* A missing cell stays missing, an unseen value gets the unknown code.
label(f, column, mapping) ==
    LET mp == IF mapping.fitted THEN mapping ELSE FitLabels(f, column)
        enc(x) == IF IsNaN(x) THEN NaN
                  ELSE IF x \in DOMAIN mp.m THEN Num(mp.m[x])
                  ELSE Num(UnknownCode)
    IN  [frame |-> WithColumn(f, column,
                              [r \in f.index |-> enc(f.val[r][column])]),
         mapping |-> mp]

\* encoding.one_hot(f, column, mapping): the column is replaced by one
\* indicator column per category of the mapping.
one_hot(f, column, mapping) ==
    LET mp   == IF mapping.fitted THEN mapping ELSE FitLabels(f, column)
        k    == Cardinality(DOMAIN mp.m)
        name(j) == column \o "_" \o ToString(j)
        cat(j)  == CHOOSE w \in DOMAIN mp.m : mp.m[w] = j
        kept == SelectSeq(f.columns, LAMBDA c : c # column)
        cols == kept \o [j \in 1 .. k |-> name(j - 1)]
        ind  == [j \in 0 .. k - 1 |-> name(j)]
        cell(r, c) ==
            IF c \in Range(kept) THEN f.val[r][c]
            ELSE LET j == CHOOSE i \in 0 .. k - 1 : ind[i] = c
                 IN  IF f.val[r][column] = cat(j) THEN Num(1) ELSE Num(0)
    IN  [frame |-> [index |-> f.index, columns |-> cols,
                    val |-> [r \in f.index |->
                               [c \in Range(cols) |-> cell(r, c)]]],
         mapping |-> mp]

\* ------------------------------------------------- the imputation module
\* imputation.remove(f, columns): the rows with a missing cell in one of the
\* columns are dropped.
remove(f, columns) ==
    LET keep == {r \in f.index :
                   \A c \in Range(columns) \cap Range(f.columns) :
                       ~IsNaN(f.val[r][c])}
    IN  Loc(f, keep, f.columns)

\* imputation.median / mean / most (f, column): the missing cells of the
\* column are filled with the statistic of the frame's non-missing cells.
median(f, column) == FillNa(f, column, ColMedian(f, column))

mean(f, column) == FillNa(f, column, ColMean(f, column))

most(f, column) == FillNa(f, column, ColMost(f, column))

\* ---------------------------------------------- the normalization module
\* No parameters given: the function computes them from the frame.
NoParams == [fitted |-> FALSE, a |-> NaN, b |-> NaN]

\* (x - mean) / std.
Standardize(x, m, sd) ==
    LET diff == RSub(x, m)
        var  == Square(sd)
    IN  IF IsNaN(diff) \/ IsNaN(sd) THEN NaN
        ELSE IF var.n = 0 \/ var.d = 0 \/ diff.d = 0 THEN RDiv(diff, sd)
        ELSE Root(Sgn(diff.n) * diff.n * diff.n * var.d,
                  diff.d * diff.d * var.n)

\* normalization.standard(f, column, mean, std): the normalized frame and the
\* pair (mean, std) used.
standard(f, column, params) ==
    LET p == IF params.fitted THEN params
             ELSE [fitted |-> TRUE, a |-> ColMean(f, column),
                   b |-> ColStd(f, column)]
    IN  [frame |-> WithColumn(f, column,
                     [r \in f.index |-> Standardize(f.val[r][column], p.a, p.b)]),
         params |-> p]

\* normalization.min_max(f, column, mini, maxi): the normalized frame and the
\* pair (min, max) used.
min_max(f, column, params) ==
    LET p == IF params.fitted THEN params
             ELSE [fitted |-> TRUE, a |-> ColMin(f, column),
                   b |-> ColMax(f, column)]
    IN  [frame |-> WithColumn(f, column,
                     [r \in f.index |->
                        RDiv(RSub(f.val[r][column], p.a), RSub(p.b, p.a))]),
         params |-> p]

\* -------------------------------------------------- the pipeline stages
\* self.data.columns[[i for i, j in enumerate(self.feat_type) if j in T]]
TypedColumns(raw, types, T) ==
    LET idx == SelectSeq([i \in 1 .. Len(types) |-> i],
                         LAMBDA i : types[i] \in T)
    IN  [k \in 1 .. Len(idx) |-> raw.columns[idx[k]]]

\* f(frame, column, mapping) for the encoder f that `code` selects.
Encoder(code, f, column, mapping) ==
    IF code = "one-hot" THEN one_hot(f, column, mapping)
    ELSE label(f, column, mapping)

\* The loop of encoding(): each column is fitted on train, and test is
\* encoded with the mapping train returned.
RECURSIVE EncodeColumns(_, _, _, _, _)
EncodeColumns(code, train, test, columns, k) ==
    IF k > Len(columns) THEN [train |-> train, test |-> test, mappings |-> <<>>]
    ELSE LET a    == Encoder(code, train, columns[k], NoMapping)
             b    == Encoder(code, test, columns[k], a.mapping)
             rest == EncodeColumns(code, a.frame, b.frame, columns, k + 1)
         IN  [rest EXCEPT !.mappings = <<a.mapping>> \o @]

\* self.set_data(train, 'X_train', processed=True) followed by
\* self.set_data(test, 'X_test', processed=True): the processed table left.
WriteBack(raw, proc, sub, train, test) ==
    SetDataOf(raw,
              SetDataOf(raw, proc, sub, Frame(train), "X_train", TRUE).table,
              sub, Frame(test), "X_test", TRUE).table

\* The end of encoding(): the frames `enc` of the loop are written back.
Encoded(raw, proc, sub, enc) ==
    [status |-> "ok",
     table |-> WriteBack(raw, proc, sub, enc.train, enc.test),
     mappings |-> enc.mappings]

\* encoding(code) with its local `columns`: f is bound for the codes
\* 'one-hot' and 'label' only, and is called when a column is to be encoded.
EncodingOn(raw, proc, sub, code, columns, train, test) ==
    IF columns # <<>> /\ code \notin {"one-hot", "label"}
    THEN Raise("UnboundLocalError")
    ELSE Encoded(raw, proc, sub, EncodeColumns(code, train, test, columns, 1))

\* The variant of encoding() that fits each mapping on all the rows of X
\* instead of the train rows.  EncodingFitsOnTrain tells it from encoding().
EncodingOfAllRows(raw, proc, sub, types, code) ==
    EncodingOn(raw, proc, sub, code,
               TypedColumns(raw, types, {"Binary", "Categorical"}),
               GetDataOf(raw, proc, sub, "X", TRUE).frame,
               GetDataOf(raw, proc, sub, "X", TRUE).frame)

\* encoding(code) on a dataset: the processed table it leaves and the
\* mappings it fitted, or the error it raises before writing anything.
EncodingOf(raw, proc, sub, types, code) ==
    EncodingOn(raw, proc, sub, code,
               TypedColumns(raw, types, {"Binary", "Categorical"}),
               GetDataOf(raw, proc, sub, "X_train", TRUE).frame,
               GetDataOf(raw, proc, sub, "X_test", TRUE).frame)

RECURSIVE FillColumns(_, _, _, _)
FillColumns(how, f, columns, k) ==
    IF k > Len(columns) THEN f
    ELSE LET g == CASE how = "median" -> median(f, columns[k])
                    [] how = "mean"   -> mean(f, columns[k])
                    [] OTHER          -> most(f, columns[k])
         IN  FillColumns(how, g, columns, k + 1)

\* The variant of _impute that takes a name it does not know for None.
\* UnknownImputationRaises tells it from _impute.
ImputeOfLenient(f, columns, how) ==
    CASE how = "remove" -> [status |-> "ok", frame |-> remove(f, columns)]
      [] how \in {"median", "mean", "most"} ->
            [status |-> "ok", frame |-> FillColumns(how, f, columns, 1)]
      [] OTHER -> [status |-> "ok", frame |-> f]

\* _impute(data, columns, how).
ImputeOf(f, columns, how) ==
    CASE how = "remove" -> [status |-> "ok", frame |-> remove(f, columns)]
      [] how \in {"median", "mean", "most"} ->
            [status |-> "ok", frame |-> FillColumns(how, f, columns, 1)]
      [] how = "none" -> [status |-> "ok", frame |-> f]
      [] OTHER -> Raise("OSError")

\* The variant of imputation() that replaces the processed table by the rows
\* _impute left.  SameRowIndex tells it from imputation().
ImputationOfKeptRows(raw, proc, sub, types, binary, categorical, numerical) ==
    LET X  == GetDataOf(raw, proc, sub, "X", TRUE).frame
        i1 == ImputeOf(X, TypedColumns(raw, types, {"Binary"}), binary)
        i2 == ImputeOf(i1.frame, TypedColumns(raw, types, {"Categorical"}),
                       categorical)
        i3 == ImputeOf(i2.frame, TypedColumns(raw, types, {"Numerical"}),
                       numerical)
    IN  IF i1.status # "ok" THEN i1
        ELSE IF i2.status # "ok" THEN i2
        ELSE IF i3.status # "ok" THEN i3
        ELSE [status |-> "ok",
              table |-> Loc(SetDataOf(raw, proc, sub, Frame(i3.frame), "X",
                                      TRUE).table,
                            i3.frame.index, proc.columns)]

\* imputation(binary, categorical, numerical) on a dataset.
ImputationOf(raw, proc, sub, types, binary, categorical, numerical) ==
    LET X  == GetDataOf(raw, proc, sub, "X", TRUE).frame
        i1 == ImputeOf(X, TypedColumns(raw, types, {"Binary"}), binary)
        i2 == ImputeOf(i1.frame, TypedColumns(raw, types, {"Categorical"}),
                       categorical)
        i3 == ImputeOf(i2.frame, TypedColumns(raw, types, {"Numerical"}),
                       numerical)
    IN  IF i1.status # "ok" THEN i1
        ELSE IF i2.status # "ok" THEN i2
        ELSE IF i3.status # "ok" THEN i3
        ELSE [status |-> "ok",
              table |-> SetDataOf(raw, proc, sub, Frame(i3.frame), "X",
                                  TRUE).table]

\* The variant of the loop of normalization() that computes the parameters of
\* test from test.  NormalizationFitsOnTrain tells it from normalization().
RECURSIVE NormalizeColumnsRefit(_, _, _, _, _)
NormalizeColumnsRefit(norm, train, test, columns, k) ==
    IF k > Len(columns) THEN [train |-> train, test |-> test]
    ELSE IF norm = "standard"
         THEN LET a == standard(train, columns[k], NoParams)
                  b == standard(test, columns[k], NoParams)
              IN  NormalizeColumnsRefit(norm, a.frame, b.frame, columns, k + 1)
    ELSE IF norm = "min-max"
         THEN LET a == min_max(train, columns[k], NoParams)
                  b == min_max(test, columns[k], NoParams)
              IN  NormalizeColumnsRefit(norm, a.frame, b.frame, columns, k + 1)
    ELSE NormalizeColumnsRefit(norm, train, test, columns, k + 1)

\* The loop of normalization(): the parameters are computed on train and
\* handed to the call on test.
RECURSIVE NormalizeColumns(_, _, _, _, _)
NormalizeColumns(norm, train, test, columns, k) ==
    IF k > Len(columns) THEN [train |-> train, test |-> test]
    ELSE IF norm = "standard"
         THEN LET a == standard(train, columns[k], NoParams)
                  b == standard(test, columns[k], a.params)
              IN  NormalizeColumns(norm, a.frame, b.frame, columns, k + 1)
    ELSE IF norm = "min-max"
         THEN LET a == min_max(train, columns[k], NoParams)
                  b == min_max(test, columns[k], a.params)
              IN  NormalizeColumns(norm, a.frame, b.frame, columns, k + 1)
    ELSE NormalizeColumns(norm, train, test, columns, k + 1)

\* The end of normalization(): the frames `res` of the loop are written back.
Normalized(raw, proc, sub, res) ==
    [status |-> "ok", table |-> WriteBack(raw, proc, sub, res.train, res.test)]

\* The variant of normalization() that normalizes the columns of every
\* type.  NormalizationKeepsOtherColumns tells it from normalization().
NormalizationOfEveryType(raw, proc, sub, types, norm) ==
    Normalized(raw, proc, sub,
               NormalizeColumns(norm,
                                GetDataOf(raw, proc, sub, "X_train", TRUE).frame,
                                GetDataOf(raw, proc, sub, "X_test", TRUE).frame,
                                TypedColumns(raw, types,
                                             {"Numerical", "Binary",
                                              "Categorical"}), 1))

\* normalization(norm) on a dataset.
NormalizationOf(raw, proc, sub, types, norm) ==
    Normalized(raw, proc, sub,
               NormalizeColumns(norm,
                                GetDataOf(raw, proc, sub, "X_train", TRUE).frame,
                                GetDataOf(raw, proc, sub, "X_test", TRUE).frame,
                                TypedColumns(raw, types, {"Numerical"}), 1))

\* ----------------------------------------------------------------- inputs
\* The `code` arguments tried ("none" stands for None; "bogus" for a name no
\* stage knows).  encoding.likelihood is not modelled.
Codes == {"label", "one-hot", "none", "bogus"}

\* The `norm` arguments tried.
Norms == {"standard", "min-max", "none", "bogus"}

\* The default of `missing`.
DefaultMissing == <<"most", "most", "median">>

\* The `missing` arguments tried: one name for the three type classes, or a
\* list [binary, categorical, numerical].
MissingInputs ==
    { [isList |-> FALSE, v |-> <<m>>] :
        m \in {"most", "median", "mean", "remove", "none", "bogus"} }
    \cup { [isList |-> TRUE, v |-> DefaultMissing] }

\* The value set_data is given: a scalar, written to every selected cell.
SetValues == { Scalar(Num(5)) }

Op(op, status, stages, policy) ==
    [op |-> op, status |-> status, stages |-> stages, policy |-> policy]

NoArgs == [code |-> "", missing |-> <<>>, reset |-> FALSE]

\* ------------------------------------------------------- the info dictionary
\* The basename the dataset is constructed with.
basename == "B"

\* get_type_problem(): 'y_train' in self.data tests the column labels of the
\* table; on a table without a column of that name the solution file is
\* not read and the task is 'Unknown'.
get_type_problem == "task" :> "Unknown"

\* init_info() when no B_public.info exists: the dictionary it builds from
\* the subset index `sub`.  The metric follows the task.
InitInfo(sub) ==
    LET shape == <<Cardinality(sub.train), Len(sub.X)>>
        first == get_type_problem
                 @@ ("format" :> "dense")
                 @@ ("is_sparse" :> 0)
                 @@ ("train_num" :> shape[1])
                 @@ ("feat_num" :> shape[2])
        labels == IF "y" \in DOMAIN sub
                  THEN ("target_num" :> Len(sub.y))
                       @@ ("test_num" :> Cardinality(sub.test))
                  ELSE <<>>
        last == ("usage" :> "No info file")
                @@ ("name" :> basename)
                @@ ("has_categorical" :> 0)
                @@ ("has_missing" :> 0)
                @@ ("feat_type" :> "mixed")
                @@ ("time_budget" :> 600)
                @@ ("metric" :> IF first["task"] = "regression"
                                THEN "r2_metric" ELSE "auc_metric")
    IN  first @@ labels @@ last

\* The text right of '=' on a line of B_public.info: digits, or a word that
\* may stand between quotes.
Digits(n) == [digits |-> TRUE, n |-> n, s |-> "", quoted |-> FALSE]

Word(s, quoted) == [digits |-> FALSE, n |-> 0, s |-> s, quoted |-> quoted]

\* One value of init_info(): the quotes are removed, and what int() accepts
\* becomes an int.
InfoValue(token) == IF token.digits THEN token.n ELSE token.s

\* init_info() when B_public.info exists, `lines` being its <<key, token>>
\* lines (at least one of them holds a word): dict(zip(keys, values)), so
\* the last line of a key wins.
ReadInfo(lines) ==
    [k \in {lines[i][1] : i \in DOMAIN lines} |->
        InfoValue(lines[CHOOSE i \in DOMAIN lines :
                          /\ lines[i][1] = k
                          /\ \A j \in DOMAIN lines :
                                lines[j][1] = k => j <= i][2])]

\* The B_public.info file of the dataset: it states no row count.
PublicInfo ==
    << <<"usage", Word("Sample dataset", TRUE)>>,
       <<"name", Word(basename, TRUE)>>,
       <<"task", Word("binary.classification", TRUE)>>,
       <<"metric", Word("auc_metric", TRUE)>>,
       <<"feat_num", Digits(Len(feat_name))>>,
       <<"time_budget", Digits(600)>> >>

\* self.descriptors = dict().
NoDescriptors == <<>>

\* No Comparator has been constructed.
NoComparator == <<>>

\* Nothing has been saved.
NoFiles == <<>>

\* -------------------------------------------------------------- construction
\* The shapes <<rows of the .data file(s), rows of the .solution file(s)>> of
\* the input: unlabelled, labelled, and labelled with one label row more than
\* there are data rows.
Shapes == { <<MaxRows, 0>>, <<MaxRows, MaxRows>>, <<MaxRows - 1, MaxRows>> }

\* init_data(): subsets['X'], the table, subsets['y'] when a solution file
\* exists; the split comes from the row counts of the pre-split files
\* (nTrain > 0) or from train_test_split.
InitSubsets(table, nX, nY, split) ==
    IF nY > 0
    THEN [X |-> feat_name, y |-> label_name,
          train |-> split.train, test |-> split.test]
    ELSE [X |-> feat_name, train |-> split.train, test |-> split.test]

\* range(len(X_train)) and range(len(X_train), len(X_train) + len(X_test)).
PreSplit(nTrain, nX) ==
    [train |-> 0 .. nTrain - 1, test |-> nTrain .. nX - 1]

Init ==
    \E shape \in Shapes, types \in TypeFiles, presplit \in BOOLEAN :
    \E hole \in Holes :
        LET table == LoadTable(shape[1], hole, shape[2])
        IN  /\ data = table
            /\ processed_data = table
            /\ \/ /\ presplit
                  /\ \E nTrain \in 1 .. shape[1] - 1 :
                        subsets = InitSubsets(table, shape[1], shape[2],
                                              PreSplit(nTrain, shape[1]))
               \/ /\ ~presplit
                  /\ \E test_size \in TestSizes :
                     \E split \in Splits(table.index, test_size) :
                        subsets = InitSubsets(table, shape[1], shape[2], split)
            /\ feat_type = types
            /\ pc = "idle"
            /\ args = NoArgs
            /\ prev = table
            /\ lastOp = Op("init", "ok", <<>>, <<>>)
            /\ edits = 0
            /\ info = ReadInfo(PublicInfo)
            /\ descriptors = NoDescriptors
            /\ comparator = NoComparator
            /\ files = NoFiles

\* ---------------------------------------------------------------- actions
\* train_test_split(test_size=..., shuffle=...): with shuffle=False
\* shuffled_index is never bound and the call raises before it writes.
TrainTestSplit(test_size, shuffle) ==
    /\ pc = "idle"
    /\ edits < MaxEdits
    /\ IF shuffle
       THEN /\ \E split \in Splits(data.index, test_size) :
                 subsets' = [subsets EXCEPT !.train = split.train,
                                            !.test = split.test]
            /\ lastOp' = Op("train_test_split", "ok", <<>>, <<>>)
            /\ edits' = edits + 1
       ELSE /\ subsets' = subsets
            /\ lastOp' = Op("train_test_split", "UnboundLocalError", <<>>, <<>>)
            /\ edits' = edits
    /\ UNCHANGED <<data, processed_data, feat_type, pc, args, prev>>
    /\ UNCHANGED <<info, descriptors, comparator, files>>

\* set_data(values, s, processed).
SetData(values, s, processed) ==
    /\ pc = "idle"
    /\ edits < MaxEdits
    /\ LET res == SetDataOf(data, processed_data, subsets, values, s, processed)
       IN  /\ data' = IF res.status = "ok" /\ ~processed THEN res.table
                      ELSE data
           /\ processed_data' = IF res.status = "ok" /\ processed THEN res.table
                                ELSE processed_data
           /\ lastOp' = Op("set_data", res.status, <<>>, <<>>)
           /\ edits' = IF res.status = "ok" THEN edits + 1 ELSE edits
    /\ UNCHANGED <<subsets, feat_type, pc, args, prev>>
    /\ UNCHANGED <<info, descriptors, comparator, files>>

\* The variant of process_data that starts without resetting the processed
\* table.  ProcessDataIsPure tells it from process_data.
ProcessDataNoReset ==
    /\ pc = "idle"
    /\ processed_data' = processed_data
    /\ prev' = processed_data
    /\ pc' = "encoding"
    /\ args' = [NoArgs EXCEPT !.reset = (processed_data # data)]
    /\ lastOp' = Op("process_data", "running", <<>>, <<>>)
    /\ UNCHANGED <<data, subsets, feat_type, edits>>
    /\ UNCHANGED <<info, descriptors, comparator, files>>

\* process_data(norm, code, missing) starts: the processed table is reset to
\* a copy of the raw table.  Each argument is drawn when the stage that reads
\* it starts.
ProcessData ==
    /\ pc = "idle"
    /\ processed_data' = data
    /\ prev' = data
    /\ pc' = "encoding"
    /\ args' = [NoArgs EXCEPT !.reset = (processed_data # data)]
    /\ lastOp' = Op("process_data", "running", <<>>, <<>>)
    /\ UNCHANGED <<data, subsets, feat_type, edits>>
    /\ UNCHANGED <<info, descriptors, comparator, files>>

\* A stage of process_data ends with result `res`: when it returned, the
\* processed table is the one it left and the call goes on to `next`; when it
\* raised, the error leaves process_data and nothing was written.
StageEnds(stage, res, policy, next, nextArgs) ==
    /\ IF res.status = "ok"
       THEN /\ processed_data' = res.table
            /\ pc' = next
            /\ args' = nextArgs
            /\ lastOp' = Op("process_data", "running",
                            Append(lastOp.stages, stage), policy)
       ELSE /\ processed_data' = processed_data
            /\ pc' = "idle"
            /\ args' = NoArgs
            /\ lastOp' = Op("process_data", res.status,
                            Append(lastOp.stages, stage), policy)
    /\ prev' = processed_data
    /\ UNCHANGED <<data, subsets, feat_type, edits>>
    /\ UNCHANGED <<info, descriptors, comparator, files>>

\* The variant of process_data in which normalization follows encoding
\* directly.  StagesInOrder tells it from process_data.
EncodingThenNormalization(code) ==
    /\ pc = "encoding"
    /\ StageEnds("encoding",
                 EncodingOf(data, processed_data, subsets, feat_type, code),
                 <<code>>, "normalization", [NoArgs EXCEPT !.code = code])

\* self.encoding(code=code).
Encoding(code) ==
    /\ pc = "encoding"
    /\ StageEnds("encoding",
                 EncodingOf(data, processed_data, subsets, feat_type, code),
                 <<code>>, "imputation", [NoArgs EXCEPT !.code = code])

\* The three arguments process_data hands to imputation().
MissingArgs(missing) ==
    IF missing.isList THEN missing.v
    ELSE <<missing.v[1], missing.v[1], missing.v[1]>>

\* self.imputation(binary=..., categorical=..., numerical=...).
Imputation(missing) ==
    /\ pc = "imputation"
    /\ StageEnds("imputation",
                 ImputationOf(data, processed_data, subsets, feat_type,
                              MissingArgs(missing)[1], MissingArgs(missing)[2],
                              MissingArgs(missing)[3]),
                 MissingArgs(missing), "normalization",
                 [args EXCEPT !.missing = MissingArgs(missing)])

\* The variant of normalization() that writes its result to the raw table as
\* well.  RawMutatedBySetDataOnly tells it from normalization().
NormalizationWritesRaw(norm) ==
    /\ pc = "normalization"
    /\ LET res == NormalizationOf(data, processed_data, subsets, feat_type, norm)
       IN  /\ processed_data' = res.table
           /\ data' = res.table
           /\ lastOp' = Op("process_data", "ok",
                           Append(lastOp.stages, "normalization"), <<norm>>)
    /\ pc' = "idle"
    /\ args' = NoArgs
    /\ prev' = processed_data
    /\ UNCHANGED <<subsets, feat_type, edits>>
    /\ UNCHANGED <<info, descriptors, comparator, files>>

\* self.normalization(norm=norm), and the return of process_data.
Normalization(norm) ==
    /\ pc = "normalization"
    /\ LET res == NormalizationOf(data, processed_data, subsets, feat_type, norm)
       IN  /\ processed_data' = res.table
           /\ lastOp' = Op("process_data", "ok",
                           Append(lastOp.stages, "normalization"), <<norm>>)
    /\ pc' = "idle"
    /\ args' = NoArgs
    /\ prev' = processed_data
    /\ UNCHANGED <<data, subsets, feat_type, edits>>
    /\ UNCHANGED <<info, descriptors, comparator, files>>

Next ==
    \/ \E test_size \in TestSizes, shuffle \in BOOLEAN :
          TrainTestSplit(test_size, shuffle)
    \/ \E values \in SetValues, s \in SetKeys, processed \in BOOLEAN :
          SetData(values, s, processed)
    \/ ProcessData
    \/ \E code \in Codes : Encoding(code)
    \/ \E missing \in MissingInputs : Imputation(missing)
    \/ \E norm \in Norms : Normalization(norm)

Spec == Init /\ [][Next]_vars

\* ------------------------------------------------------------ properties
AllStages == <<"encoding", "imputation", "normalization">>

IsPrefix(a, b) == Len(a) <= Len(b) /\ \A k \in 1 .. Len(a) : a[k] = b[k]

\* The label columns of the table: none when the dataset has no labels.
LabelColumns == IF "y" \in DOMAIN subsets THEN subsets.y ELSE <<>>

\* A process_data call has returned normally and nothing was called since.
Processed == pc = "idle" /\ lastOp.op = "process_data" /\ lastOp.status = "ok"

\* C1: in every reachable state the train and test row selections are
\* disjoint and their union is the full row index of the table.
TrainTestPartition ==
    /\ subsets.train \cap subsets.test = {}
    /\ subsets.train \cup subsets.test = data.index

\* The selection the documentation of get_data states for a recognized key.
StatedRows(s) ==
    CASE s \in {"train", "X_train", "y_train"} -> subsets.train
      [] s \in {"test", "X_test", "y_test"}    -> subsets.test
      [] OTHER                                 -> data.index

StatedColumns(s) ==
    CASE s \in {"X", "X_train", "X_test"} -> subsets.X
      [] s \in {"y", "y_train", "y_test"} -> LabelColumns
      [] OTHER                            -> data.columns

StatedFrame(s, processed) ==
    LET t == IF processed THEN processed_data ELSE data
    IN  [index |-> StatedRows(s), columns |-> StatedColumns(s),
         val |-> [r \in StatedRows(s) |->
                    [c \in Range(StatedColumns(s)) |-> t.val[r][c]]]]

YKeys == {"y", "y_train", "y_test"}

UnknownKeysRaise ==
    \A s \in UnknownKeys, processed \in BOOLEAN :
        /\ get_data(s, processed).status # "ok"
        /\ \A values \in SetValues :
              SetDataOf(data, processed_data, subsets, values, s,
                        processed).status # "ok"

\* C4 as stated: every process_data call runs the three stages, in order,
\* each exactly once, whatever the policies.
EveryCallRunsAllStages ==
    (pc = "idle" /\ lastOp.op = "process_data") => lastOp.stages = AllStages

\* C4 as amended: the stages of a process_data call start in the fixed order,
\* each at most once and each after the previous one has returned; a call
\* that returns normally has run all three, and a call in which a stage
\* raises runs no later stage.
StagesInOrder ==
    lastOp.op = "process_data" =>
        /\ IsPrefix(lastOp.stages, AllStages)
        /\ pc # "idle" => /\ lastOp.status = "running"
                          /\ pc = AllStages[Len(lastOp.stages) + 1]
        /\ pc = "idle" => /\ lastOp.status # "running"
                          /\ lastOp.stages # <<>>
                          /\ lastOp.status = "ok" => lastOp.stages = AllStages

\* A call that ran the three stages and changed the processed table.
StagesWitness == Processed /\ processed_data # data

\* process_data(norm, code, missing) as a function of the raw table, the
\* split, the feature types and the policies (a call that returns normally).
Pipeline(raw, sub, types, code, missing, norm) ==
    LET e == EncodingOf(raw, raw, sub, types, code)
        i == ImputationOf(raw, e.table, sub, types,
                          missing[1], missing[2], missing[3])
    IN  NormalizationOf(raw, i.table, sub, types, norm).table

\* C5: the table a process_data call returns is the pipeline applied to the
\* raw table: it depends on the raw table, the split, the feature types and
\* the policies only, not on what the processed table held before the call.
ProcessDataIsPure ==
    [][(pc = "normalization" /\ pc' = "idle")
         => processed_data' = Pipeline(data, subsets, feat_type, args.code,
                                       args.missing, lastOp'.policy[1])]_vars

\* A call that starts on a processed table that differs from the raw table.
ResetWitness == pc = "encoding" /\ args.reset /\ processed_data = data

AltCells == {NaN, Num(1), Num(2), Num(3)}

\* The Binary and Categorical columns, in the order encoding() visits them.
EncodedColumns == TypedColumns(data, feat_type, {"Binary", "Categorical"})

\* The code a fitted mapping gives a cell.
CodeOf(mapping, x) ==
    IF IsNaN(x) THEN NaN
    ELSE IF x \in DOMAIN mapping.m THEN Num(mapping.m[x])
    ELSE Num(UnknownCode)

\* C7: when the encoding stage has run, the mapping of every Binary or
\* Categorical column is the one fitted on the train rows of the table the
\* stage started from, label encoding codes the test rows with that mapping,
\* and giving any test cell another value changes neither the mappings nor
\* any encoded train row.
EncodingFitsOnTrain ==
    pc = "imputation" =>
        LET e0 == EncodingOf(data, prev, subsets, feat_type, args.code)
            tr == Loc(prev, subsets.train, subsets.X)
        IN  /\ e0.status = "ok" /\ e0.table = processed_data
            /\ Len(e0.mappings) = Len(EncodedColumns)
            /\ \A k \in 1 .. Len(EncodedColumns) :
                  /\ e0.mappings[k] = FitLabels(tr, EncodedColumns[k])
                  /\ args.code = "label" =>
                        \A r \in subsets.test :
                            processed_data.val[r][EncodedColumns[k]] =
                                CodeOf(e0.mappings[k],
                                       prev.val[r][EncodedColumns[k]])
            /\ \A r \in subsets.test, c \in Range(subsets.X), x \in AltCells :
                  LET alt == [prev EXCEPT !.val[r][c] = x]
                      e   == EncodingOf(data, alt, subsets, feat_type, args.code)
                  IN  /\ e.status = "ok"
                      /\ e.mappings = e0.mappings
                      /\ \A t \in subsets.train :
                            e.table.val[t] = processed_data.val[t]

\* Label encoding has run on a split whose test part holds a value of an
\* encoded column that no train row holds.
EncodingWitness ==
    /\ pc = "imputation" /\ args.code = "label"
    /\ subsets.train # {}
    /\ \E k \in 1 .. Len(EncodedColumns), r \in subsets.test :
          /\ ~IsNaN(prev.val[r][EncodedColumns[k]])
          /\ processed_data.val[r][EncodedColumns[k]] = Num(UnknownCode)

\* The imputation policy of the k-th feature column.
MissingPolicy(k) ==
    CASE feat_type[k] = "Binary"      -> args.missing[1]
      [] feat_type[k] = "Categorical" -> args.missing[2]
      [] OTHER                        -> args.missing[3]

\* The statistic a fill policy computes on a column of frame f.
FillValue(how, f, column) ==
    CASE how = "median" -> ColMedian(f, column)
      [] how = "mean"   -> ColMean(f, column)
      [] OTHER          -> ColMost(f, column)

\* C8: when the imputation stage has run with policy mean, median or most on
\* a column, every cell of the column that was missing in a train or a test
\* row holds the statistic of the non-missing train cells of the column.
ImputationFitsOnTrain ==
    pc = "normalization" =>
        LET tr == Loc(prev, subsets.train, subsets.X)
        IN  \A k \in 1 .. Len(feat_type) :
              MissingPolicy(k) \in {"mean", "median", "most"} =>
                \A r \in subsets.train \cup subsets.test :
                    IsNaN(prev.val[r][feat_name[k]]) =>
                        processed_data.val[r][feat_name[k]] =
                            FillValue(MissingPolicy(k), tr, feat_name[k])

\* C9: when process_data has returned with norm standard or min-max, every
\* cell of a Numerical column, in train and in test rows alike, is the cell
\* the normalization stage started from transformed with the pair computed
\* from the train rows of that column.
NormalizationFitsOnTrain ==
    (Processed /\ lastOp.policy[1] \in {"standard", "min-max"}) =>
        LET tr == Loc(prev, subsets.train, subsets.X)
        IN  \A k \in 1 .. Len(feat_type) :
              feat_type[k] = "Numerical" =>
                \A r \in subsets.train \cup subsets.test :
                    processed_data.val[r][feat_name[k]] =
                        IF lastOp.policy[1] = "standard"
                        THEN Standardize(prev.val[r][feat_name[k]],
                                         ColMean(tr, feat_name[k]),
                                         ColStd(tr, feat_name[k]))
                        ELSE RDiv(RSub(prev.val[r][feat_name[k]],
                                       ColMin(tr, feat_name[k])),
                                  RSub(ColMax(tr, feat_name[k]),
                                       ColMin(tr, feat_name[k])))

\* Standard normalization has run with at least two train rows and has
\* changed a test cell of a Numerical column to a finite value.
NormalizationWitness ==
    /\ Processed /\ lastOp.policy[1] = "standard"
    /\ Cardinality(subsets.train) >= 2
    /\ \E k \in 1 .. Len(feat_type), r \in subsets.test :
          /\ feat_type[k] = "Numerical"
          /\ IsFinite(processed_data.val[r][feat_name[k]])
          /\ processed_data.val[r][feat_name[k]] # prev.val[r][feat_name[k]]

\* C10: a process_data call whose last stage was given a policy name that is
\* neither a recognized policy nor none has failed with an error.
UnknownPolicyFails ==
    (lastOp.op = "process_data" /\ "bogus" \in Range(lastOp.policy)) =>
        lastOp.status \notin {"ok", "running"}

\* The stage that ended last was given the policy none for every type class
\* it handles.
NonePolicy ==
    /\ lastOp.op = "process_data"
    /\ lastOp.stages # <<>>
    /\ \A k \in DOMAIN lastOp.policy : lastOp.policy[k] = "none"

\* C11: a stage given the policy none completes without error and leaves
\* every cell of the processed table as it was before the stage, whatever
\* the types of the columns.
NoneIsNoOp ==
    NonePolicy => /\ lastOp.status \in {"ok", "running"}
                  /\ processed_data = prev

\* ------------------------------------------------------------ descriptors
\* A dataset as one value: the fields of an AutoML object.
Dataset(raw, proc, sub, types, inf, desc) ==
    [data |-> raw, processed_data |-> proc, subsets |-> sub,
     feat_type |-> types, info |-> inf, descriptors |-> desc]

\* The dataset the state variables hold.
ds1 == Dataset(data, processed_data, subsets, feat_type, info, descriptors)

\* The value a library function returns, kept as the term fn(of): pandas'
\* skew, min, max and mean of a Series, and the functions of the metric
\* module.
Term(fn, of) == [fn |-> fn, of |-> of]

\* f[column] as a Series: one cell per row label.
Column(f, column) == [r \in f.index |-> f.val[r][column]]

\* y.std().mean(): the mean of the standard deviations that are not NaN.
ClassDeviation(y) ==
    LET std == [k \in DOMAIN y.columns |-> ColStd(y, y.columns[k])]
        S   == {k \in DOMAIN std : ~IsNaN(std[k])}
    IN  IF S = {} THEN NaN
        ELSE IF Cardinality(S) = 1 THEN std[CHOOSE k \in S : TRUE]
        ELSE Term("mean", std)

\* (X.isnull().sum() / len(X)).mean().
MissingProba(X) ==
    LET K == DOMAIN X.columns
        p == [k \in K |->
                Rat(Cardinality({r \in X.index : IsNaN(X.val[r][X.columns[k]])}),
                    Cardinality(X.index))]
    IN  IF K = {} \/ X.index = {} THEN NaN
        ELSE RDiv(SumOver(p, K), Num(Cardinality(K)))

\* X.skew().
Skewness(X) == [k \in DOMAIN X.columns |-> Term("skew", Column(X, X.columns[k]))]

\* The entries compute_descriptors writes after 'ratio', in the order of the
\* code, X being the table it read.
Described(ds, X) ==
    ("symb_ratio" :> Rat(Len(SelectSeq(ds.feat_type,
                                       LAMBDA j : j = "Numerical")),
                         Len(ds.feat_type)))
    @@ (IF "y" \in DOMAIN ds.subsets
        THEN "class_deviation" :>
                ClassDeviation(GetDataOf(ds.data, ds.processed_data,
                                         ds.subsets, "y", FALSE).frame)
        ELSE <<>>)
    @@ ("missing_proba" :> MissingProba(X))
    @@ ("skewness_min" :> Term("min", Skewness(X)))
    @@ ("skewness_max" :> Term("max", Skewness(X)))
    @@ ("skewness_mean" :> Term("mean", Skewness(X)))

\* compute_descriptors(processed) on dataset ds: the descriptors dictionary
\* it leaves and how the call ends.  An entry written before an error stays.
DescribeOf(ds, processed) ==
    IF ~({"feat_num", "train_num"} \subseteq DOMAIN ds.info)
    THEN [status |-> "KeyError", descriptors |-> ds.descriptors]
    ELSE IF ds.info["train_num"] = 0
    THEN [status |-> "ZeroDivisionError", descriptors |-> ds.descriptors]
    ELSE IF Len(ds.feat_type) = 0
    THEN [status |-> "ZeroDivisionError",
          descriptors |->
              ("ratio" :> Rat(ds.info["feat_num"], ds.info["train_num"]))
              @@ ds.descriptors]
    ELSE [status |-> "ok",
          descriptors |->
              ("ratio" :> Rat(ds.info["feat_num"], ds.info["train_num"]))
              @@ Described(ds, GetDataOf(ds.data, ds.processed_data,
                                         ds.subsets, "X", processed).frame)
              @@ ds.descriptors]

\* The `processed` argument as lastOp records it.
Flag(processed) == IF processed THEN "processed" ELSE "raw"

\* A compute_descriptors call ends with result `res`: self.descriptors is
\* the only attribute the method assigns to.
Measured(res, processed) ==
    /\ descriptors' = res.descriptors
    /\ lastOp' = Op("compute_descriptors", res.status, <<>>,
                    <<Flag(processed)>>)
    /\ args' = NoArgs
    /\ UNCHANGED <<pc, prev, edits, info, comparator, files>>

\* The variant of compute_descriptors that fills the missing cells of the
\* processed table before it measures it.  ComputeDescriptorsOnlyReads tells
\* it from compute_descriptors.
ComputeDescriptorsFilling(processed) ==
    /\ pc = "idle"
    /\ Measured(DescribeOf(ds1, processed), processed)
    /\ processed_data' =
          [processed_data EXCEPT !.val =
              [r \in processed_data.index |->
                  [c \in Range(processed_data.columns) |->
                      IF IsNaN(processed_data.val[r][c]) THEN Num(0)
                      ELSE processed_data.val[r][c]]]]
    /\ UNCHANGED <<data, subsets, feat_type>>

\* compute_descriptors(processed=processed).
ComputeDescriptors(processed) ==
    /\ pc = "idle"
    /\ Measured(DescribeOf(ds1, processed), processed)
    /\ UNCHANGED <<data, processed_data, subsets, feat_type>>

\* ------------------------------------------------------------- Comparator
\* process_data(norm, code, missing) on dataset ds as one call: how it ends
\* and the processed table it leaves (the table of the last stage that
\* returned when a stage raises).
AfterImputation(ds, table, i, norm) ==
    IF i.status # "ok" THEN [status |-> i.status, table |-> table]
    ELSE NormalizationOf(ds.data, i.table, ds.subsets, ds.feat_type, norm)

AfterEncoding(ds, e, missing, norm) ==
    IF e.status # "ok" THEN [status |-> e.status, table |-> ds.data]
    ELSE AfterImputation(ds, e.table,
                         ImputationOf(ds.data, e.table, ds.subsets,
                                      ds.feat_type, missing[1], missing[2],
                                      missing[3]),
                         norm)

ProcessDataOf(ds, norm, code, missing) ==
    AfterEncoding(ds,
                  EncodingOf(ds.data, ds.data, ds.subsets, ds.feat_type, code),
                  missing, norm)

\* The loop body that writes the Kolmogorov-Smirnov entry for every column
\* and the three frequency entries for the columns that are not Numerical.
\* OneMetricFamily tells it from the loop body of compute_comparison_matrix.
MatrixEntriesBoth(d1, data1, data2, i) ==
    LET column == data1.columns[i]
        c1 == Column(data1, column)
        c2 == Column(data2, column)
        f1 == Term("frequency", c1)
        f2 == Term("frequency", c2)
    IN  (<<"Kolmogorov-Smirnov", column>> :>
             Term("kolmogorov_smirnov", <<c1, c2>>))
        @@ IF d1.feat_type[i] = "Numerical" THEN <<>>
           ELSE (<<"Kullback-Leibler divergence", column>> :>
                    Term("kullback_leibler", <<f1, f2>>))
                @@ (<<"Mutual information", column>> :>
                    Term("mutual_information", <<f1, f2>>))
                @@ (<<"Jensen-Shannon divergence", column>> :>
                    Term("jensen_shannon", <<f1, f2>>))

\* The entries compute_comparison_matrix writes for the column at position i
\* of ds1's processed X: <<metric, column>> |-> value.
MatrixEntries(d1, data1, data2, i) ==
    LET column == data1.columns[i]
        c1 == Column(data1, column)
        c2 == Column(data2, column)
        f1 == Term("frequency", c1)
        f2 == Term("frequency", c2)
    IN  IF d1.feat_type[i] = "Numerical"
        THEN <<"Kolmogorov-Smirnov", column>> :>
                 Term("kolmogorov_smirnov", <<c1, c2>>)
        ELSE (<<"Kullback-Leibler divergence", column>> :>
                 Term("kullback_leibler", <<f1, f2>>))
             @@ (<<"Mutual information", column>> :>
                 Term("mutual_information", <<f1, f2>>))
             @@ (<<"Jensen-Shannon divergence", column>> :>
                 Term("jensen_shannon", <<f1, f2>>))

\* The loop of compute_comparison_matrix from position i on: the matrix it
\* leaves, and KeyError when ds2 has no column of the name (the entries
\* written before stay).
RECURSIVE MatrixFrom(_, _, _, _, _)
MatrixFrom(d1, data1, data2, i, matrix) ==
    IF i > Len(data1.columns) THEN [status |-> "ok", matrix |-> matrix]
    ELSE IF data1.columns[i] \notin Range(data2.columns)
         THEN [status |-> "KeyError", matrix |-> matrix]
    ELSE MatrixFrom(d1, data1, data2, i + 1,
                    MatrixEntries(d1, data1, data2, i) @@ matrix)

\* compute_comparison_matrix() on the datasets d1 and d2.
ComparisonMatrixOf(d1, d2, matrix) ==
    MatrixFrom(d1,
               GetDataOf(d1.data, d1.processed_data, d1.subsets, "X",
                         TRUE).frame,
               GetDataOf(d2.data, d2.processed_data, d2.subsets, "X",
                         TRUE).frame,
               1, matrix)

\* The loop of Comparator.compute_descriptors: a distance for each
\* descriptor both datasets have.
Distances(desc1, desc2, dist) ==
    [k \in DOMAIN desc1 \cap DOMAIN desc2 |->
        Term("distance", <<desc1[k], desc2[k]>>)] @@ dist

\* Comparator.compute_descriptors(processed) given the results r1 and r2 of
\* the two compute_descriptors calls: the second dataset is not measured
\* when the first call raises.
ComparedDescriptors(d1, d2, r1, r2, dist) ==
    IF r1.status # "ok"
    THEN [status |-> r1.status, dist |-> dist,
          ds1 |-> [d1 EXCEPT !.descriptors = r1.descriptors], ds2 |-> d2]
    ELSE IF r2.status # "ok"
    THEN [status |-> r2.status, dist |-> dist,
          ds1 |-> [d1 EXCEPT !.descriptors = r1.descriptors],
          ds2 |-> [d2 EXCEPT !.descriptors = r2.descriptors]]
    ELSE [status |-> "ok",
          dist |-> Distances(r1.descriptors, r2.descriptors, dist),
          ds1 |-> [d1 EXCEPT !.descriptors = r1.descriptors],
          ds2 |-> [d2 EXCEPT !.descriptors = r2.descriptors]]

CompareDescriptorsOf(d1, d2, processed, dist) ==
    ComparedDescriptors(d1, d2, DescribeOf(d1, processed),
                        DescribeOf(d2, processed), dist)

\* How a Comparator construction ends: the two datasets as it leaves them,
\* and what the Comparator has computed.
Constructed(status, d1, d2, dist, matrix) ==
    [status |-> status, ds1 |-> d1, ds2 |-> d2, dist |-> dist,
     matrix |-> matrix]

\* Comparator.__init__ from line 33 on: the descriptor distances, then the
\* comparison matrix.
WithMatrix(c, m) == Constructed(m.status, c.ds1, c.ds2, c.dist, m.matrix)

WithDescriptors(c) ==
    IF c.status # "ok" THEN Constructed(c.status, c.ds1, c.ds2, c.dist, <<>>)
    ELSE WithMatrix(c, ComparisonMatrixOf(c.ds1, c.ds2, <<>>))

\* The variant of the construction that makes the check of line 26 after
\* the descriptor distances are computed.  DifferingFeatNumFails tells it
\* from Comparator.__init__.
CheckedLate(c) ==
    IF c.status # "ok" THEN Constructed(c.status, c.ds1, c.ds2, c.dist, <<>>)
    ELSE IF c.ds1.info["feat_num"] # c.ds2.info["feat_num"]
    THEN Constructed("AssertionError", c.ds1, c.ds2, c.dist, <<>>)
    ELSE WithMatrix(c, ComparisonMatrixOf(c.ds1, c.ds2, <<>>))

ComparedThenChecked(d1, d2) ==
    IF ~("feat_num" \in DOMAIN d1.info /\ "feat_num" \in DOMAIN d2.info)
    THEN Constructed("KeyError", d1, d2, <<>>, <<>>)
    ELSE CheckedLate(CompareDescriptorsOf(d1, d2, FALSE, <<>>))

\* The check of line 26 on the processed datasets d1 and d2, and the rest of
\* the construction when it passes.
CheckedThenCompared(d1, d2) ==
    IF ~("feat_num" \in DOMAIN d1.info /\ "feat_num" \in DOMAIN d2.info)
    THEN Constructed("KeyError", d1, d2, <<>>, <<>>)
    ELSE IF d1.info["feat_num"] # d2.info["feat_num"]
    THEN Constructed("AssertionError", d1, d2, <<>>, <<>>)
    ELSE WithDescriptors(CompareDescriptorsOf(d1, d2, FALSE, <<>>))

\* Comparator.process_data() of line 23 given the results p1 and p2 of the
\* two process_data calls: ds2 is not processed when the first call raises.
BothProcessed(d1, d2, p1, p2) ==
    IF p1.status # "ok"
    THEN Constructed(p1.status, [d1 EXCEPT !.processed_data = p1.table], d2,
                     <<>>, <<>>)
    ELSE IF p2.status # "ok"
    THEN Constructed(p2.status, [d1 EXCEPT !.processed_data = p1.table],
                     [d2 EXCEPT !.processed_data = p2.table], <<>>, <<>>)
    ELSE CheckedThenCompared([d1 EXCEPT !.processed_data = p1.table],
                             [d2 EXCEPT !.processed_data = p2.table])

\* Comparator(d1, d2).
ComparatorOf(d1, d2) ==
    BothProcessed(d1, d2,
                  ProcessDataOf(d1, "standard", "label", DefaultMissing),
                  ProcessDataOf(d2, "standard", "label", DefaultMissing))

\* The Comparator and its second dataset, as the state variable holds them.
Comparing(d2, status, dist, matrix) ==
    [ds2 |-> d2, status |-> status, descriptors_dist |-> dist,
     comparison_matrix |-> matrix]

\* Comparator(ds1, ds2): the constructor runs to its end or to the error
\* that leaves it.
\* The construction of the Comparator ends with result `res`.
ComparatorEnds(res) ==
    /\ processed_data' = res.ds1.processed_data
    /\ descriptors' = res.ds1.descriptors
    /\ comparator' = Comparing(res.ds2, res.status, res.dist, res.matrix)
    /\ lastOp' = Op("Comparator", res.status, <<>>, <<>>)
    /\ prev' = processed_data
    /\ args' = NoArgs
    /\ UNCHANGED <<data, subsets, feat_type, pc, edits, info, files>>

NewComparator ==
    /\ pc = "idle"
    /\ comparator.status = "new"
    /\ ComparatorEnds(ComparatorOf(ds1, comparator.ds2))

\* Comparator.compute_descriptors(processed=processed).
\* Comparator.compute_descriptors ends with result `res`.
CompareDescriptorsEnds(res, processed) ==
    /\ descriptors' = res.ds1.descriptors
    /\ comparator' = [comparator EXCEPT !.ds2 = res.ds2,
                                        !.descriptors_dist = res.dist]
    /\ lastOp' = Op("Comparator.compute_descriptors", res.status, <<>>,
                    <<Flag(processed)>>)
    /\ args' = NoArgs
    /\ UNCHANGED <<data, processed_data, subsets, feat_type, pc, prev,
                   edits, info, files>>

CompareDescriptors(processed) ==
    /\ pc = "idle"
    /\ comparator.status = "ok"
    /\ CompareDescriptorsEnds(
          CompareDescriptorsOf(ds1, comparator.ds2, processed,
                               comparator.descriptors_dist), processed)

\* Comparator.compute_comparison_matrix().
\* Comparator.compute_comparison_matrix ends with result `res`.
ComparisonMatrixEnds(res) ==
    /\ comparator' = [comparator EXCEPT !.comparison_matrix = res.matrix]
    /\ lastOp' = Op("compute_comparison_matrix", res.status, <<>>, <<>>)
    /\ args' = NoArgs
    /\ UNCHANGED <<data, processed_data, subsets, feat_type, pc, prev,
                   edits, info, descriptors, files>>

ComputeComparisonMatrix ==
    /\ pc = "idle"
    /\ comparator.status = "ok"
    /\ ComparisonMatrixEnds(ComparisonMatrixOf(ds1, comparator.ds2,
                                               comparator.comparison_matrix))

\* ----------------------------------------------------------------- classify
\* The longest training list whose orders are enumerated.
MaxShuffled == 4

\* The labels of a frame's rows in the order of the frame.
InOrder(S) ==
    [i \in 1 .. Cardinality(S) |->
        CHOOSE r \in S : Cardinality({q \in S : q < r}) = i - 1]

\* list(frame.values): one array of cells for each row of the frame.  `ds`
\* and `row` name the row the array was read from, x is the array.
RowValues(frame, ds) ==
    [i \in 1 .. Cardinality(frame.index) |->
        [ds |-> ds, row |-> InOrder(frame.index)[i],
         x |-> [k \in DOMAIN frame.columns |->
                   frame.val[InOrder(frame.index)[i]][frame.columns[k]]]]]

\* list(zip(X, y)) for y = [0] * len(X1) + [1] * len(X2).
Zipped(X1, X2) ==
    [i \in 1 .. Len(X1) + Len(X2) |->
        IF i <= Len(X1) THEN <<X1[i], 0>> ELSE <<X2[i - Len(X1)], 1>>]

\* The shuffle that repeats the pair it draws first in every position.
\* ClassifySets tells it from random.shuffle.
ShuffledRepeating(combined, p) == [i \in DOMAIN combined |-> combined[p[1]]]

\* random.shuffle(combined) when it draws the order p.
Shuffled(combined, p) == [i \in DOMAIN combined |-> combined[p[i]]]

\* classify() from line 135 on, for the order p the shuffle draws: the
\* lists clf.fit and clf.score are called with.  zip(*combined) of an empty
\* list gives nothing to unpack.
Classified(X1_train, X2_train, X1_test, X2_test, p) ==
    IF Len(X1_train) + Len(X2_train) = 0 THEN Raise("ValueError")
    ELSE [status  |-> "ok",
          X_train |-> [i \in 1 .. Len(X1_train) + Len(X2_train) |->
                          Shuffled(Zipped(X1_train, X2_train), p)[i][1]],
          y_train |-> [i \in 1 .. Len(X1_train) + Len(X2_train) |->
                          Shuffled(Zipped(X1_train, X2_train), p)[i][2]],
          X_test  |-> [i \in 1 .. Len(X1_test) + Len(X2_test) |->
                          Zipped(X1_test, X2_test)[i][1]],
          y_test  |-> [i \in 1 .. Len(X1_test) + Len(X2_test) |->
                          Zipped(X1_test, X2_test)[i][2]]]

\* The four get_data calls of classify(), in the order of lines 130-133:
\* the first that raises ends the call.
ClassifyFrames(t1, e1, t2, e2) ==
    IF t1.status # "ok" THEN {t1}
    ELSE IF e1.status # "ok" THEN {e1}
    ELSE IF t2.status # "ok" THEN {t2}
    ELSE IF e2.status # "ok" THEN {e2}
    ELSE { Classified(RowValues(t1.frame, 1), RowValues(t2.frame, 2),
                      RowValues(e1.frame, 1), RowValues(e2.frame, 2), p) :
             p \in Permutations(1 .. Cardinality(t1.frame.index)
                                     + Cardinality(t2.frame.index)) }

\* classify() on the datasets d1 and d2: the ways it can end.
ClassifyOf(d1, d2) ==
    ClassifyFrames(
        GetDataOf(d1.data, d1.processed_data, d1.subsets, "X_train", TRUE),
        GetDataOf(d1.data, d1.processed_data, d1.subsets, "X_test", TRUE),
        GetDataOf(d2.data, d2.processed_data, d2.subsets, "X_train", TRUE),
        GetDataOf(d2.data, d2.processed_data, d2.subsets, "X_test", TRUE))

\* Comparator.classify(): it computes the training and the scoring set from
\* copies of the processed tables and stores nothing in the objects, so a
\* call that follows another draws from the same lists and is not repeated.
Classify ==
    /\ pc = "idle"
    /\ comparator.status = "ok"
    /\ lastOp.op # "classify"
    /\ Cardinality(subsets.train) + Cardinality(comparator.ds2.subsets.train)
          <= MaxShuffled
    /\ \E res \in ClassifyOf(ds1, comparator.ds2) :
          /\ lastOp' = Op("classify", res.status, <<>>, <<>>)
          /\ args' = res
    /\ UNCHANGED <<data, processed_data, subsets, feat_type, pc, prev,
                   edits, info, descriptors, comparator, files>>

\* Comparator.datasets_distance(): it computes its result from copies of
\* the processed tables and stores nothing.
DatasetsDistance ==
    /\ pc = "idle"
    /\ comparator.status = "ok"
    /\ lastOp' = Op("datasets_distance", "ended", <<>>, <<>>)
    /\ args' = NoArgs
    /\ UNCHANGED <<data, processed_data, subsets, feat_type, pc, prev,
                   edits, info, descriptors, comparator, files>>

\* The datasets a Comparator is handed as ds2, each constructed without an
\* info file unless said: one with the single feature f1; one with the two
\* features, unlabelled; one with the two features, labelled, with a hole;
\* and the second again, constructed from a directory with B_public.info.
OneFeature ==
    LET names == <<"f1">>
        rows  == 0 .. MaxRows - 1
        table == DataFrame(rows, names,
                           [r \in rows |-> [c \in Range(names) |-> BaseCell(r, c)]])
        sub   == [X |-> names, train |-> 0 .. MaxRows - 2,
                  test |-> {MaxRows - 1}]
    IN  Dataset(table, table, sub, <<"Binary">>, InitInfo(sub), NoDescriptors)

TwoFeatures(hole, nY, withInfo) ==
    LET table == LoadTable(MaxRows, hole, nY)
        sub   == InitSubsets(table, MaxRows, nY, PreSplit(MaxRows - 1, MaxRows))
    IN  Dataset(table, table, sub, <<"Binary", "Numerical">>,
                IF withInfo THEN ReadInfo(PublicInfo) ELSE InitInfo(sub),
                NoDescriptors)

SecondDatasets ==
    { OneFeature, TwoFeatures(NoHole, 0, FALSE),
      TwoFeatures(<<0, "f2">>, MaxRows, FALSE), TwoFeatures(NoHole, 0, TRUE) }

\* A dataset after its construction from a directory without B_public.info,
\* and a second dataset: nothing is measured or compared yet.
InitCompare ==
    \E shape \in Shapes, types \in TypeFiles, hole \in Holes :
    \E d2 \in SecondDatasets :
        LET table == LoadTable(shape[1], hole, shape[2])
        IN  /\ data = table
            /\ processed_data = table
            /\ \/ \E nTrain \in 1 .. shape[1] - 1 :
                     subsets = InitSubsets(table, shape[1], shape[2],
                                           PreSplit(nTrain, shape[1]))
               \/ \E split \in Splits(table.index, <<1, 1>>) :
                     subsets = InitSubsets(table, shape[1], shape[2], split)
            /\ info = InitInfo(subsets)
            /\ feat_type = types
            /\ pc = "idle"
            /\ args = NoArgs
            /\ prev = table
            /\ lastOp = Op("init", "ok", <<>>, <<>>)
            /\ edits = 0
            /\ descriptors = NoDescriptors
            /\ comparator = Comparing(d2, "new", <<>>, <<>>)
            /\ files = NoFiles

NextCompare ==
    \/ \E processed \in BOOLEAN : ComputeDescriptors(processed)
    \/ NewComparator
    \/ \E processed \in BOOLEAN : CompareDescriptors(processed)
    \/ ComputeComparisonMatrix
    \/ Classify
    \/ DatasetsDistance

SpecCompare == InitCompare /\ [][NextCompare]_vars

\* C12: a compute_descriptors call leaves the raw table, the processed
\* table, the subset index, the info dictionary and the feature types as
\* they were, and a call that follows a call with the same argument leaves
\* the descriptors as they were.
ComputeDescriptorsOnlyReads ==
    [][lastOp'.op = "compute_descriptors" =>
         /\ data' = data /\ processed_data' = processed_data
         /\ subsets' = subsets /\ info' = info /\ feat_type' = feat_type
         /\ (lastOp.op = "compute_descriptors" /\ lastOp.policy = lastOp'.policy)
               => descriptors' = descriptors]_vars

\* The descriptors of a processed table that differs from the raw table,
\* which has a missing cell, have been computed on a labelled dataset.
DescriptorsWitness ==
    /\ lastOp = Op("compute_descriptors", "ok", <<>>, <<"processed">>)
    /\ processed_data # data
    /\ {"class_deviation", "skewness_mean"} \subseteq DOMAIN descriptors
    /\ \E r \in data.index, c \in Range(subsets.X) : IsNaN(data.val[r][c])

\* The two datasets of the Comparator state a different number of features.
FeatNumDiffers ==
    /\ "feat_num" \in DOMAIN info
    /\ "feat_num" \in DOMAIN comparator.ds2.info
    /\ info["feat_num"] # comparator.ds2.info["feat_num"]

\* C13: the construction of a Comparator from two datasets whose feature
\* counts differ has failed, and no descriptor distance and no entry of the
\* comparison matrix has been computed.
DifferingFeatNumFails ==
    (comparator.status # "new" /\ FeatNumDiffers) =>
        /\ comparator.status # "ok"
        /\ comparator.descriptors_dist = <<>>
        /\ comparator.comparison_matrix = <<>>

\* A construction has failed on the feature counts of two datasets that
\* both can be measured.
FeatNumWitness ==
    /\ comparator.status = "AssertionError"
    /\ FeatNumDiffers
    /\ DescribeOf(ds1, FALSE).status = "ok"
    /\ DescribeOf(comparator.ds2, FALSE).status = "ok"

ComparatorOps ==
    {"Comparator", "Comparator.compute_descriptors",
     "compute_comparison_matrix", "classify", "datasets_distance"}

\* C14: the construction of a Comparator and its methods leave the raw
\* table, the processed table, the subset index, the info dictionary and
\* the descriptors of both datasets as they were.
ComparatorOnlyReads ==
    [][lastOp'.op \in ComparatorOps =>
         /\ data' = data /\ processed_data' = processed_data
         /\ subsets' = subsets /\ info' = info /\ descriptors' = descriptors
         /\ comparator'.ds2 = comparator.ds2]_vars

\* ---------------------------------------------------------------- get_types
\* A string cell: the k-th string of a text column.
Str(k) == [n |-> k, d |-> 1, r |-> 0]

\* isinstance(i, str).
IsStr(x) == x.r = 0

\* x[column].unique(): the distinct cells, NaN being one of them.
Unique(f, column) == {f.val[r][column] : r \in f.index}

\* any(isinstance(i, str) for i in x[column]).
AnyStr(f, column) == \E r \in f.index : IsStr(f.val[r][column])

\* x[column].sum() inside try/except: the sum of the cells that are not
\* missing; for a text column the sum is a string or raises, and the handler
\* gives -inf: either way a value that equals no number.
TypeSum(f, column) ==
    IF AnyStr(f, column) THEN Rat(-1, 0)
    ELSE SumOver([r \in f.index |-> f.val[r][column]], Present(f, column))

\* sum == n*(n-1)/2 or sum == n*(n+1)/2.
IsTriangular(sum, n) == sum = Rat(n * (n - 1), 2) \/ sum = Rat(n * (n + 1), 2)

\* The if/elif/else chain of get_types whose last branch appends nothing
\* that is a type.
TypeOfNoDefault(f, column, n) ==
    IF n = 2 THEN "Binary"
    ELSE IF (n > 2 /\ IsTriangular(TypeSum(f, column), n)) \/ AnyStr(f, column)
         THEN "Categorical"
         ELSE "None"

\* The if/elif/else chain of get_types for one column with n unique values.
TypeOf(f, column, n) ==
    IF n = 2 THEN "Binary"
    ELSE IF (n > 2 /\ IsTriangular(TypeSum(f, column), n)) \/ AnyStr(f, column)
         THEN "Categorical"
         ELSE "Numerical"

\* get_types(df): one label per column, in column order.
get_types(df) ==
    [k \in DOMAIN df.columns |->
        TypeOf(df, df.columns[k], Cardinality(Unique(df, df.columns[k])))]

\* The cells a numeric column of the .data file may hold, and the cells a
\* text column may hold.
NumericCells == {Num(0), Num(1), Num(2), Num(5), NaN}

TextCells == {Str(1), Str(2), NaN}

\* pd.DataFrame(X, columns=feat_name) for a .data file whose first column
\* holds the cells `column` and whose second column holds 1, 4, 9, ...
TypedTable(column) ==
    [index |-> DOMAIN column, columns |-> feat_name,
     val |-> [r \in DOMAIN column |->
                [c \in Range(feat_name) |->
                    IF c = "f1" THEN column[r] ELSE BaseCell(r, c)]]]

\* The dataset inside __init__, after init_info() and before load_type(), for
\* an unlabelled pre-split input without B_feat.type.
InitTypes ==
    \E cells \in {NumericCells, TextCells} :
    \E column \in [0 .. MaxRows - 1 -> cells] :
        /\ data = TypedTable(column)
        /\ processed_data = data
        /\ subsets = InitSubsets(data, MaxRows, 0, PreSplit(1, MaxRows))
        /\ feat_type = <<>>
        /\ pc = "load_type"
        /\ args = NoArgs
        /\ prev = data
        /\ lastOp = Op("init_info", "ok", <<>>, <<>>)
        /\ edits = 0
        /\ info = InitInfo(subsets)
        /\ descriptors = NoDescriptors
        /\ comparator = NoComparator
        /\ files = NoFiles

\* self.feat_type = self.load_type(...) when B_feat.type does not exist.
LoadType ==
    /\ pc = "load_type"
    /\ feat_type' = get_types(get_data("X", FALSE).frame)
    /\ pc' = "idle"
    /\ lastOp' = Op("load_type", "ok", <<>>, <<>>)
    /\ UNCHANGED <<data, processed_data, subsets, args, prev, edits, info,
                   descriptors, comparator, files>>

\* processing.get_types(D.get_data('X')) on the constructed dataset; args
\* holds the list it returns.
GetTypes ==
    /\ pc = "idle"
    /\ args' = [types |-> get_types(get_data("X", FALSE).frame)]
    /\ lastOp' = Op("get_types", "ok", <<>>, <<>>)
    /\ UNCHANGED <<data, processed_data, subsets, feat_type, pc, prev, edits,
                   info, descriptors, comparator, files>>

NextTypes ==
    \/ LoadType
    \/ GetTypes

SpecTypes == InitTypes /\ [][NextTypes]_vars

Types == {"Binary", "Categorical", "Numerical"}

StatedType(f, column) ==
    LET U == Unique(f, column)
        n == Cardinality(U)
    IN  IF n = 2 THEN "Binary"
        ELSE IF \/ AnyStr(f, column)
                \/ n > 2 /\ U = {Num(i) : i \in 0 .. n - 1}
                \/ n > 2 /\ U = {Num(i) : i \in 1 .. n}
             THEN "Categorical"
             ELSE "Numerical"

\* C16: the label get_types gives a column is the one the stated rule gives:
\* Binary for two unique values, else Categorical exactly for a column with a
\* string or with unique values 0..n-1 or 1..n, else Numerical.
GetTypesFollowsRule ==
    lastOp.op = "load_type" =>
        \A k \in DOMAIN feat_type :
            feat_type[k] = StatedType(data, subsets.X[k])

\* -------------------------------------------------------- train_test_split
\* C20: a train_test_split call on a table of n rows returns, with shuffle
\* True as well as False, and leaves floor(test_size * n) rows in the test
\* selection and the other n - floor(test_size * n) rows in the train
\* selection, for one of the test sizes in [0, 1].
SplitSizes ==
    lastOp.op = "train_test_split" =>
        /\ lastOp.status = "ok"
        /\ \E test_size \in TestSizes :
              LET n == Cardinality(data.index)
              IN  /\ Cardinality(subsets.test) = SplitPoint(test_size, n)
                  /\ Cardinality(subsets.train) = n - SplitPoint(test_size, n)

\* What holds of the calls that return: the sizes are the stated ones.
SplitSizesWhenShuffled ==
    (lastOp.op = "train_test_split" /\ lastOp.status = "ok") =>
        \E test_size \in TestSizes :
            LET n == Cardinality(data.index)
            IN  /\ Cardinality(subsets.test) = SplitPoint(test_size, n)
                /\ Cardinality(subsets.train) = n - SplitPoint(test_size, n)
                /\ subsets.train \cup subsets.test = data.index

\* ------------------------------------------------- the input directory
\* None: the value of an attribute that holds nothing.
None == <<>>

\* The rows first .. first + n - 1 of the dataset as a .data file holds them.
DataRows(first, n, hole) ==
    [i \in 1 .. n |->
        [k \in DOMAIN feat_name |->
            IF hole = <<first + i - 1, feat_name[k]>> THEN NaN
            ELSE BaseCell(first + i - 1, feat_name[k])]]

\* The same rows of a .solution file.
LabelRows(first, n) == [i \in 1 .. n |-> <<LabelCell(first + i - 1)>>]

\* A directory is a function from the file names after the basename to what
\* the files hold; "." is the directory itself.  layout: which .data files
\* it holds; sol: which .solution files; labels: the names in B_label.name.
InputDir(layout, sol, labels, withInfo, withTypes, hole) ==
    ("." :> "dir")
    @@ ("_feat.name" :> feat_name)
    @@ (IF layout = "single" THEN ".data" :> DataRows(0, MaxRows, hole)
        ELSE <<>>)
    @@ (IF layout \in {"split", "train"}
        THEN "_train.data" :> DataRows(0, MaxRows - 1, hole) ELSE <<>>)
    @@ (IF layout = "split"
        THEN "_test.data" :> DataRows(MaxRows - 1, 1, hole) ELSE <<>>)
    @@ (IF sol = "none" THEN <<>>
        ELSE ("_label.name" :> labels)
             @@ (".solution" :> LabelRows(0, MaxRows))
             @@ ("_train.solution" :> LabelRows(0, MaxRows - 1)))
    @@ (IF sol = "all"
        THEN "_test.solution" :> LabelRows(MaxRows - 1, 1) ELSE <<>>)
    @@ (IF withInfo THEN "_public.info" :> PublicInfo ELSE <<>>)
    @@ (IF withTypes THEN "_feat.type" :> <<"Binary", "Numerical">> ELSE <<>>)

\* The directories a dataset is constructed from: one that does not exist,
\* and those holding no data file, B.data, both pre-split files or
\* B_train.data alone, with all, none or the train part of the labels.
InputDirs ==
    {NoFiles} \cup
    { InputDir(layout, sol, labels, withInfo, withTypes, hole) :
        layout \in {"none", "single", "split", "train"},
        sol \in {"none", "all", "train"},
        labels \in {<<"y">>, <<"c">>, <<"y_train">>},
        withInfo \in BOOLEAN, withTypes \in BOOLEAN,
        hole \in {NoHole, <<0, "f1">>} }

\* os.path.exists / os.path.isdir.
Exists(dir, file) == file \in DOMAIN dir

\* load_data() and load_label(): [] when the file does not exist.
load_data(dir, file) == IF Exists(dir, file) THEN dir[file] ELSE <<>>

\* load_name(): None when the file does not exist.
load_name(dir, file) == IF Exists(dir, file) THEN dir[file] ELSE None

\* pd.DataFrame(X, columns=names): the rows are labelled 0, 1, ...; without
\* names the columns are labelled 0, 1, ... ("0" stands for the integer 0).
FrameOf(X, names) ==
    LET columns == IF names = None
                   THEN [k \in DOMAIN X[1] |-> ToString(k - 1)] ELSE names
    IN  [index |-> 0 .. Len(X) - 1, columns |-> columns,
         val |-> [r \in 0 .. Len(X) - 1 |->
                    [c \in Range(columns) |->
                        X[r + 1][CHOOSE k \in DOMAIN columns :
                                     columns[k] = c]]]]

\* pd.concat([a, b], axis=1): rows are aligned on the row label, absent
\* cells are NaN.
Concat(a, b) ==
    [index |-> a.index \cup b.index, columns |-> a.columns \o b.columns,
     val |-> [r \in a.index \cup b.index |->
                [c \in Range(a.columns \o b.columns) |->
                    IF c \in Range(a.columns)
                    THEN IF r \in a.index THEN a.val[r][c] ELSE NaN
                    ELSE IF r \in b.index THEN b.val[r][c] ELSE NaN]]]

\* Where init_data() stands when it returns or raises: self.data and
\* self.subsets.
Built(status, table, sub) ==
    [status |-> status, data |-> table, subsets |-> sub]

\* init_data(): the ways it can end.  np.concatenate raises ValueError when
\* one of the two arrays is the [] of an absent file.
InitDataOf(dir, test_size) ==
    LET feat   == load_name(dir, "_feat.name")
        labels == load_name(dir, "_label.name")
    IN  IF Exists(dir, "_train.data")
        THEN LET X_train == load_data(dir, "_train.data")
                 X_test  == load_data(dir, "_test.data")
                 train   == 0 .. Len(X_train) - 1
                 test    == Len(X_train) .. Len(X_train) + Len(X_test) - 1
                 table   == FrameOf(X_train \o X_test, feat)
                 y_train == load_data(dir, "_train.solution")
                 y_test  == load_data(dir, "_test.solution")
             IN  IF X_test = <<>>
                 THEN {Built("ValueError", None, [X |-> feat])}
                 ELSE IF ~Exists(dir, "_train.solution")
                 THEN {Built("ok", table,
                             [X |-> feat, train |-> train, test |-> test])}
                 ELSE IF y_test = <<>>
                 THEN {Built("ValueError", table,
                             [X |-> feat, train |-> train, test |-> test])}
                 ELSE {Built("ok",
                             Concat(table, FrameOf(y_train \o y_test, labels)),
                             [X |-> feat, y |-> labels,
                              train |-> train, test |-> test])}
        ELSE IF Exists(dir, ".data")
        THEN LET table == FrameOf(load_data(dir, ".data"), feat)
                 y     == load_data(dir, ".solution")
             IN  IF Exists(dir, ".solution")
                 THEN { Built("ok", Concat(table, FrameOf(y, labels)),
                              [X |-> feat, y |-> labels,
                               train |-> s.train, test |-> s.test]) :
                          s \in Splits(table.index \cup (0 .. Len(y) - 1),
                                       test_size) }
                 ELSE { Built("ok", table,
                              [X |-> feat,
                               train |-> s.train, test |-> s.test]) :
                          s \in Splits(table.index, test_size) }
        ELSE {Built("OSError", None, [X |-> feat])}

\* int(x) for a cell of the solution array.
AsInt(x) == IF x.n >= 0 THEN x.n \div x.d ELSE -((-x.n) \div x.d)

\* The sum of the cells of a row of the solution array, each cast to int.
RECURSIVE RowSum(_, _)
RowSum(row, k) ==
    IF k > Len(row) THEN 0 ELSE AsInt(row[k]) + RowSum(row, k + 1)

\* The entries get_type_problem derives from the solution array
\* (lines 500-528).
TaskOf(solution) ==
    IF Len(solution[1]) = 1
    THEN IF Cardinality({solution[i][1] : i \in DOMAIN solution}) * 8
              < Len(solution)
         THEN IF Cardinality({solution[i][1] : i \in DOMAIN solution}) = 2
              THEN [target_num |-> 1, label_num |-> 2,
                    task |-> "binary.classification",
                    target_type |-> "binary"]
              ELSE [target_num |-> 1,
                    label_num |-> Cardinality({solution[i][1] :
                                                  i \in DOMAIN solution}),
                    task |-> "multiclass.classification",
                    target_type |-> "categorical"]
         ELSE [target_num |-> 1, label_num |-> 0, task |-> "regression",
               target_type |-> "numerical"]
    ELSE [target_num |-> Len(solution[1]), label_num |-> Len(solution[1]),
          target_type |-> "binary",
          task |-> IF \E i \in DOMAIN solution : RowSum(solution[i], 1) > 1
                   THEN "multilabel.classification"
                   ELSE "multiclass.classification"]

\* get_type_problem(solution_filepath) on the info dictionary `inf`: the
\* dictionary it leaves.  'y_train' in self.data tests the column labels of
\* the table; read_csv raises when the solution file does not exist.
GetTypeProblemOf(inf, table, dir, file) ==
    IF "task" \notin DOMAIN inf /\ "y_train" \in Range(table.columns)
    THEN IF ~Exists(dir, file)
         THEN [status |-> "FileNotFoundError", info |-> inf]
         ELSE [status |-> "ok", info |-> TaskOf(dir[file]) @@ inf]
    ELSE [status |-> "ok", info |-> ("task" :> "Unknown") @@ inf]

\* init_info() from line 335 on, after get_type_problem left the entries
\* `first`: the entries assigned later replace those of the same key.
InfoAfter(first, rest) ==
    [k \in DOMAIN rest \ {"task", "metric"} |-> rest[k]]
    @@ ("metric" :> IF first["task"] = "regression"
                    THEN "r2_metric" ELSE "auc_metric")
    @@ first

\* init_info() when no B_public.info exists, on the table and the subset
\* index init_data() left: the solution file named is B.solution when
\* B.data exists and B_train.solution otherwise.
InitInfoOf(table, sub, dir) ==
    InfoAfter(GetTypeProblemOf(<<>>, table, dir,
                               IF Exists(dir, ".data") THEN ".solution"
                               ELSE "_train.solution").info,
              InitInfo(sub))

\* __init__ from init_info() on, for the way `res` init_data() ended.
Finished(res, dir) ==
    IF res.status # "ok"
    THEN [status |-> res.status, data |-> res.data, subsets |-> res.subsets,
          info |-> None, feat_type |-> None]
    ELSE IF ~Exists(dir, "_public.info")
            /\ GetTypeProblemOf(<<>>, res.data, dir,
                                IF Exists(dir, ".data") THEN ".solution"
                                ELSE "_train.solution").status # "ok"
    THEN [status |-> "FileNotFoundError", data |-> res.data,
          subsets |-> res.subsets, info |-> None, feat_type |-> None]
    ELSE [status |-> "ok", data |-> res.data, subsets |-> res.subsets,
          info |-> IF Exists(dir, "_public.info")
                   THEN ReadInfo(dir["_public.info"])
                   ELSE InitInfoOf(res.data, res.subsets, dir),
          feat_type |->
              IF Exists(dir, "_feat.type") THEN dir["_feat.type"]
              ELSE get_types(GetDataOf(res.data, res.data, res.subsets,
                                       "X", FALSE).frame)]

\* __init__ without the test of lines 35-40.
HasDataUnchecked(dir) == TRUE

\* The test of __init__ that a .data file exists.
HasData(dir) == Exists(dir, "_train.data") \/ Exists(dir, ".data")

\* AutoML(input_dir, basename, test_size): the objects it can leave, with the
\* attributes assigned when it returned or raised.
ConstructOf(dir, test_size) ==
    IF ~Exists(dir, ".") \/ ~HasData(dir)
    THEN {[status |-> "OSError", data |-> None, subsets |-> None,
           info |-> None, feat_type |-> None]}
    ELSE {Finished(res, dir) : res \in InitDataOf(dir, test_size)}

Construct(test_size) ==
    /\ lastOp.op \in {"new", "save"}
    /\ \E obj \in ConstructOf(files, test_size) :
          /\ data' = obj.data
          /\ processed_data' = obj.data
          /\ prev' = obj.data
          /\ subsets' = obj.subsets
          /\ info' = obj.info
          /\ feat_type' = obj.feat_type
          /\ lastOp' = Op("init", obj.status, <<>>, <<>>)
    /\ descriptors' = NoDescriptors
    /\ UNCHANGED <<pc, args, edits, comparator, files>>

\* The array np.savetxt writes for a frame: its rows in index order.
Values(frame) ==
    [i \in 1 .. Cardinality(frame.index) |->
        [k \in DOMAIN frame.columns |-> frame.val[i - 1][frame.columns[k]]]]

\* str(n) for the integers an info entry may hold.
IntTexts == {ToString(n) : n \in 0 .. 600}

\* The lines save() writes to the info file, str(key) = str(item): an int is
\* written as its digits, a string as it is, without quotes.
RECURSIVE InfoLines(_, _)
InfoLines(inf, keys) ==
    IF keys = {} THEN <<>>
    ELSE LET k == CHOOSE q \in keys : TRUE
         IN  << <<k, IF ToString(inf[k]) \in IntTexts THEN Digits(inf[k])
                     ELSE Word(inf[k], FALSE)>> >>
             \o InfoLines(inf, keys \ {k})

\* save(out_path, out_name) into the directory `out`: the files it writes
\* replace those of the same name, the other files of `out` stay.
SaveOf(raw, sub, inf, out) ==
    ("." :> "dir")
    @@ (".data" :> Values(GetDataOf(raw, raw, sub, "X", FALSE).frame))
    @@ ("_feat.name" :> sub.X)
    @@ (IF "y" \in Range(raw.columns)
        THEN ".solution" :> Values(GetDataOf(raw, raw, sub, "y", FALSE).frame)
        ELSE <<>>)
    @@ ("_public.info" :> InfoLines(inf, DOMAIN inf))
    @@ out

\* save() on a constructed dataset, into a new directory (out = NoFiles) or
\* into the input directory under the same name.
Save(out) ==
    /\ lastOp.op = "init"
    /\ lastOp.status = "ok"
    /\ files' = SaveOf(data, subsets, info, out)
    /\ lastOp' = Op("save", "ok", <<>>, <<>>)
    /\ UNCHANGED <<data, processed_data, subsets, feat_type, pc, args, prev,
                   edits, info, descriptors, comparator>>

\* No object yet: the directory is given, __init__ has not run.
InitFiles ==
    /\ files \in InputDirs
    /\ data = None
    /\ processed_data = None
    /\ subsets = None
    /\ feat_type = None
    /\ pc = "idle"
    /\ args = NoArgs
    /\ prev = None
    /\ lastOp = Op("new", "ok", <<>>, <<>>)
    /\ edits = 0
    /\ info = None
    /\ descriptors = NoDescriptors
    /\ comparator = NoComparator

NextFiles ==
    \/ \E test_size \in TestSizes : Construct(test_size)
    \/ \E out \in {NoFiles, files} : Save(out)

SpecFiles == InitFiles /\ [][NextFiles]_vars

\* The directory `files` holds neither B_train.data nor B.data.
NoDataFile == ".data" \notin DOMAIN files /\ "_train.data" \notin DOMAIN files

\* C17: construction from a directory that exists and holds B_train.data or
\* B.data returns, whichever of the other files are absent.
ConstructionSucceeds ==
    (lastOp.op = "init" /\ "." \in DOMAIN files /\ ~NoDataFile) =>
        lastOp.status = "ok"

\* What holds: construction returns when the directory holds B.data, or both
\* pre-split data files with both or none of the pre-split solution files;
\* the info is then read or derived and there is one type per feature.
ConstructionSucceedsWhenComplete ==
    (/\ lastOp.op = "init"
     /\ \/ /\ "_train.data" \notin DOMAIN files
           /\ ".data" \in DOMAIN files
        \/ /\ {"_train.data", "_test.data"} \subseteq DOMAIN files
           /\ "_train.solution" \in DOMAIN files
                 => "_test.solution" \in DOMAIN files) =>
        /\ lastOp.status = "ok"
        /\ "feat_num" \in DOMAIN info
        /\ Len(feat_type) = Len(subsets.X)
        /\ subsets.train \cup subsets.test = data.index

Reloads == lastOp.op = "save" /\ lastOp'.op = "init"

\* C19: a dataset constructed from the files save() wrote has the X, the y
\* and the info of the saved dataset.
SaveRoundTrip ==
    [][Reloads =>
         /\ lastOp'.status = "ok"
         /\ Loc(data', data'.index, subsets'.X)
               = Loc(data, data.index, subsets.X)
         /\ info' = info
         /\ "y" \in DOMAIN subsets =>
               /\ "y" \in DOMAIN subsets'
               /\ subsets'.y = subsets.y
               /\ Loc(data', data'.index, subsets'.y)
                     = Loc(data, data.index, subsets.y)]_vars

\* What holds of the round trip: X and the info come back as they were saved.
SaveKeepsXAndInfo ==
    [][Reloads =>
         /\ lastOp'.status = "ok"
         /\ Loc(data', data'.index, subsets'.X)
               = Loc(data, data.index, subsets.X)
         /\ info' = info]_vars

\* ------------------------------------------------------ column selections
\* A dataset has been constructed (and perhaps saved).
HasDataset == (lastOp.op = "init" /\ lastOp.status = "ok") \/ lastOp.op = "save"

\* The columns subsets['y'] selects: none when the key is absent or holds None.
YColumns == IF "y" \in DOMAIN subsets THEN Range(subsets.y) ELSE {}

\* C21: in every state of a constructed dataset the X and the y column
\* selections have no column in common and together are the columns of the
\* table.
ColumnsPartition ==
    HasDataset =>
        /\ Range(subsets.X) \cap YColumns = {}
        /\ Range(subsets.X) \cup YColumns = Range(data.columns)

\* What holds: the partition, when the dataset is constructed from a
\* directory that holds B_label.name whenever it holds a solution file.
ColumnsPartitionWithNames ==
    (/\ lastOp.op = "init"
     /\ lastOp.status = "ok"
     /\ ".solution" \in DOMAIN files => "_label.name" \in DOMAIN files) =>
        /\ Range(subsets.X) \cap YColumns = {}
        /\ Range(subsets.X) \cup YColumns = Range(data.columns)

\* ------------------------------------------------------ imputation: remove
\* C22: when the imputation stage has run with policy remove for the type
\* class of a column, no row of the processed table has a missing value in
\* that column.
RemoveLeavesNoMissing ==
    pc = "normalization" =>
        \A k \in 1 .. Len(feat_type) :
            MissingPolicy(k) = "remove" =>
                \A r \in processed_data.index :
                    ~IsNaN(processed_data.val[r][feat_name[k]])

\* ------------------------------------------------------- shared row index
\* C23: in every state the raw table and the processed table have the same
\* row labels, and every row the train or the test selection names is a row
\* of both.
SameRowIndex ==
    /\ processed_data.index = data.index
    /\ subsets.train \cup subsets.test \subseteq data.index

\* The imputation stage has run with remove on a table with a missing value
\* and has changed the processed table.
SameRowIndexWitness ==
    /\ pc = "normalization"
    /\ args.missing = <<"remove", "remove", "remove">>
    /\ \E r \in prev.index : IsNaN(prev.val[r]["f2"])
    /\ processed_data # prev
    /\ processed_data.index = data.index

\* ----------------------------------------------------- processing.processing
\* x[column].replace(np.inf, x[column].max()), then
\* x[column].replace(-np.inf, x[column].min()): max() and min() skip NaN only.
ReplaceInf(f, column) ==
    LET g == WithColumn(f, column,
                 [r \in f.index |->
                     IF f.val[r][column] = Rat(1, 0) THEN ColMax(f, column)
                     ELSE f.val[r][column]])
    IN  WithColumn(g, column,
            [r \in g.index |->
                IF g.val[r][column] = Rat(-1, 0) THEN ColMin(g, column)
                ELSE g.val[r][column]])

\* The body of the loop over the Numerical columns: fillna(median), the
\* replacement of the infinities, the normalization.
NumericalColumn(f, column, normalization) ==
    LET x == ReplaceInf(FillNa(f, column, ColMedian(f, column)), column)
    IN  CASE normalization = "standard" ->
               WithColumn(x, column,
                   [r \in x.index |->
                       Standardize(x.val[r][column], ColMean(x, column),
                                   ColStd(x, column))])
          [] normalization = "min-max" ->
               WithColumn(x, column,
                   [r \in x.index |->
                       RDiv(RSub(x.val[r][column], ColMin(x, column)),
                            RSub(ColMax(x, column), ColMin(x, column)))])
          [] OTHER -> x

\* One of the three loops of processing(): over the Numerical columns, over
\* the Binary columns (label encoding), over the Categorical columns
\* (fillna('missing'), Str(0), then the encoding asked for).
RECURSIVE ProcessColumns(_, _, _, _, _)
ProcessColumns(kind, f, columns, k, option) ==
    IF k > Len(columns) THEN f
    ELSE LET c == columns[k]
             g == CASE kind = "Numerical" -> NumericalColumn(f, c, option)
                    [] kind = "Binary" -> label(f, c, NoMapping).frame
                    [] OTHER ->
                         IF option \in {"label", "one-hot"}
                         THEN Encoder(option, FillNa(f, c, Str(0)), c,
                                      NoMapping).frame
                         ELSE FillNa(f, c, Str(0))
         IN  ProcessColumns(kind, g, columns, k + 1, option)

\* processing(df, normalization, encoding): the frame it returns.
processing(df, normalization, encoding) ==
    LET types == get_types(df)
        kept  == IF encoding = "none"
                 THEN SelectSeq([i \in DOMAIN types |-> i],
                                LAMBDA i : types[i] # "Categorical")
                 ELSE [i \in DOMAIN types |-> i]
        x     == Loc(df, df.index, [i \in DOMAIN kept |-> df.columns[kept[i]]])
        t     == [i \in DOMAIN kept |-> types[kept[i]]]
        n     == ProcessColumns("Numerical", x,
                                TypedColumns(x, t, {"Numerical"}), 1,
                                normalization)
        b     == ProcessColumns("Binary", n, TypedColumns(x, t, {"Binary"}), 1,
                                encoding)
    IN  ProcessColumns("Categorical", b, TypedColumns(x, t, {"Categorical"}),
                       1, encoding)

\* The cells of the first column of the table handed to processing():
\* measurements, a missing value and one of the infinities.
InfCells ==
    { {Num(2), Num(7), NaN, Rat(1, 0)}, {Num(2), Num(7), NaN, Rat(-1, 0)} }

\* A constructed dataset without pre-split and type files.
InitProcessing ==
    \E cells \in InfCells :
    \E column \in [0 .. MaxRows - 1 -> cells] :
        /\ data = TypedTable(column)
        /\ processed_data = data
        /\ subsets = InitSubsets(data, MaxRows, 0, PreSplit(1, MaxRows))
        /\ feat_type = get_types(data)
        /\ pc = "idle"
        /\ args = NoArgs
        /\ prev = data
        /\ lastOp = Op("init", "ok", <<>>, <<>>)
        /\ edits = 0
        /\ info = InitInfo(subsets)
        /\ descriptors = NoDescriptors
        /\ comparator = NoComparator
        /\ files = NoFiles

\* processing.processing(D.get_data('X'), normalization, encoding): prev
\* holds the frame it returns.
Processing(normalization, encoding) ==
    /\ lastOp.op \in {"init", "processing"}
    /\ prev' = processing(get_data("X", FALSE).frame, normalization, encoding)
    /\ lastOp' = Op("processing", "ok", <<>>, <<normalization, encoding>>)
    /\ UNCHANGED <<data, processed_data, subsets, feat_type, pc, args, edits,
                   info, descriptors, comparator, files>>

NextProcessing ==
    \E normalization \in {"standard", "min-max", "none"},
       encoding \in {"label", "none"} :
        Processing(normalization, encoding)

SpecProcessing == InitProcessing /\ [][NextProcessing]_vars

\* Frame f without the rows whose cell in `column` is infinite.
FiniteRows(f, column) ==
    Loc(f, {r \in f.index : f.val[r][column].d # 0 \/ IsNaN(f.val[r][column])},
        f.columns)

\* The column as stated: +inf becomes the largest and -inf the smallest of
\* the other values, then the missing cells get the median of the result.
StatedNumerical(f, column) ==
    LET g == WithColumn(f, column,
                 [r \in f.index |->
                     CASE f.val[r][column] = Rat(1, 0) ->
                            ColMax(FiniteRows(f, column), column)
                       [] f.val[r][column] = Rat(-1, 0) ->
                            ColMin(FiniteRows(f, column), column)
                       [] OTHER -> f.val[r][column]])
    IN  FillNa(g, column, ColMedian(g, column))

\* C24: processing() without normalization leaves in every Numerical column
\* that holds a finite value the column in which each infinity is replaced by
\* the extreme of the other values and then each missing cell by the median:
\* no infinite value remains and none has entered the median.
InfReplacedBeforeStatistic ==
    (lastOp.op = "processing" /\ lastOp.policy[1] = "none") =>
        \A k \in DOMAIN data.columns :
            (/\ feat_type[k] = "Numerical"
             /\ \E r \in data.index : IsFinite(data.val[r][data.columns[k]])) =>
                \A r \in data.index :
                    prev.val[r][data.columns[k]]
                        = StatedNumerical(data, data.columns[k])
                              .val[r][data.columns[k]]

\* What holds: a Numerical column without infinite values comes back with its
\* missing cells filled with its median and its other cells unchanged.
MedianFillsFiniteColumns ==
    (lastOp.op = "processing" /\ lastOp.policy[1] = "none") =>
        \A k \in DOMAIN data.columns :
            (/\ feat_type[k] = "Numerical"
             /\ FiniteRows(data, data.columns[k]) = data) =>
                \A r \in data.index :
                    prev.val[r][data.columns[k]]
                        = StatedNumerical(data, data.columns[k])
                              .val[r][data.columns[k]]

\* The rows of the processed feature table of a dataset that its subset
\* `part` names, each with the label the claim gives the dataset.
LabelledRows(ds, n, part, y) ==
    { <<[ds |-> n, row |-> r,
         x |-> [k \in DOMAIN ds.subsets.X |->
                   ds.processed_data.val[r][ds.subsets.X[k]]]], y>> :
        r \in ds.subsets[part] }

\* The (row, label) pairs of two lists of the same length.
PairsOf(X, y) == { <<X[i], y[i]>> : i \in DOMAIN X }

\* C25: the training set of classify() is the processed X_train rows of
\* both datasets, the rows of the first labelled 0 and those of the second
\* labelled 1, each row once whatever order the shuffle draws; the scoring
\* set is the processed X_test rows labelled the same way; and no row of
\* the scoring set is in the training set.
ClassifySets ==
    (lastOp.op = "classify" /\ lastOp.status = "ok") =>
        /\ Len(args.X_train) = Len(args.y_train)
        /\ PairsOf(args.X_train, args.y_train) =
              LabelledRows(ds1, 1, "train", 0)
                 \cup LabelledRows(comparator.ds2, 2, "train", 1)
        /\ Len(args.X_train) =
              Cardinality(subsets.train)
                 + Cardinality(comparator.ds2.subsets.train)
        /\ Len(args.X_test) = Len(args.y_test)
        /\ PairsOf(args.X_test, args.y_test) =
              LabelledRows(ds1, 1, "test", 0)
                 \cup LabelledRows(comparator.ds2, 2, "test", 1)
        /\ Len(args.X_test) =
              Cardinality(subsets.test)
                 + Cardinality(comparator.ds2.subsets.test)
        /\ \A i \in DOMAIN args.X_train, j \in DOMAIN args.X_test :
              <<args.X_train[i].ds, args.X_train[i].row>> #
                  <<args.X_test[j].ds, args.X_test[j].row>>

\* classify() has drawn an order that moves a row of the second dataset
\* before a row of the first, and both datasets have rows to score.
ClassifyWitness ==
    /\ lastOp = Op("classify", "ok", <<>>, <<>>)
    /\ args.y_train[1] = 1
    /\ \E i \in DOMAIN args.y_train : args.y_train[i] = 0
    /\ \E i, j \in DOMAIN args.y_test : args.y_test[i] = 0 /\ args.y_test[j] = 1
    /\ processed_data # data

\* The metrics of the frequency family.
FrequencyMetrics ==
    {"Kullback-Leibler divergence", "Mutual information",
     "Jensen-Shannon divergence"}

\* The metrics the comparison matrix has an entry of in the column.
MetricsOf(matrix, column) ==
    {m \in FrequencyMetrics \cup {"Kolmogorov-Smirnov"} :
        <<m, column>> \in DOMAIN matrix}

\* C26: after compute_comparison_matrix has returned, every feature column
\* has the entries of exactly one metric family: the Kolmogorov-Smirnov
\* entry alone or the three frequency entries alone; a column that is
\* Numerical in both datasets has the first, a column that is Binary or
\* Categorical in both has the second.
OneMetricFamily ==
    (/\ lastOp.op \in {"Comparator", "compute_comparison_matrix"}
     /\ lastOp.status = "ok") =>
        \A i \in DOMAIN subsets.X :
            /\ MetricsOf(comparator.comparison_matrix, subsets.X[i])
                  \in {{"Kolmogorov-Smirnov"}, FrequencyMetrics}
            /\ (feat_type[i] = "Numerical"
                /\ comparator.ds2.feat_type[i] = "Numerical")
                  => MetricsOf(comparator.comparison_matrix, subsets.X[i])
                        = {"Kolmogorov-Smirnov"}
            /\ (feat_type[i] \in {"Binary", "Categorical"}
                /\ comparator.ds2.feat_type[i] \in {"Binary", "Categorical"})
                  => MetricsOf(comparator.comparison_matrix, subsets.X[i])
                        = FrequencyMetrics

\* compute_comparison_matrix has returned on two datasets with a Binary (or
\* Categorical) and a Numerical column, after an earlier computation of the
\* matrix by the constructor.
OneMetricFamilyWitness ==
    /\ lastOp = Op("compute_comparison_matrix", "ok", <<>>, <<>>)
    /\ feat_type[1] \in {"Binary", "Categorical"}
    /\ feat_type[2] = "Numerical"
    /\ comparator.ds2.feat_type = <<"Binary", "Numerical">>
    /\ <<"Kolmogorov-Smirnov", subsets.X[2]>>
          \in DOMAIN comparator.comparison_matrix
    /\ <<"Mutual information", subsets.X[1]>>
          \in DOMAIN comparator.comparison_matrix

\* The solution file init_info() names for a directory.
SolutionFile == IF ".data" \in DOMAIN files THEN ".solution" ELSE "_train.solution"

\* The task the claim states for a solution array.
StatedTask(solution) ==
    IF Len(solution[1]) = 1
    THEN IF 8 * Cardinality({solution[i][1] : i \in DOMAIN solution})
              < Len(solution)
         THEN IF Cardinality({solution[i][1] : i \in DOMAIN solution}) = 2
              THEN "binary.classification"
              ELSE "multiclass.classification"
         ELSE "regression"
    ELSE IF \E i \in DOMAIN solution : RowSum(solution[i], 1) > 1
         THEN "multilabel.classification"
         ELSE "multiclass.classification"

\* C27: a dataset constructed from a directory without an info file and
\* with a solution file has the task the solution gives: for one target
\* column, binary or multiclass classification when the distinct values
\* are fewer than an eighth of the rows, regression otherwise; for several
\* columns, multilabel classification when a row sums to more than 1,
\* multiclass otherwise.
TaskFromSolution ==
    (/\ lastOp = Op("init", "ok", <<>>, <<>>)
     /\ "." \in DOMAIN files
     /\ "_public.info" \notin DOMAIN files
     /\ SolutionFile \in DOMAIN files
     /\ "y" \in DOMAIN subsets) =>
        /\ "task" \in DOMAIN info
        /\ info["task"] = StatedTask(files[SolutionFile])

\* The same for the directories whose label is named y_train, the name
\* get_type_problem looks for among the columns of the table.
TaskFromSolutionWhenNamed ==
    (/\ lastOp = Op("init", "ok", <<>>, <<>>)
     /\ "." \in DOMAIN files
     /\ "_public.info" \notin DOMAIN files
     /\ SolutionFile \in DOMAIN files
     /\ "y_train" \in Range(data.columns)) =>
        /\ info["task"] = StatedTask(files[SolutionFile])
        /\ info["metric"] = "r2_metric"

\* Without an info file and without a column named y_train the task is
\* 'Unknown', with or without a solution file.
TaskUnknownOtherwise ==
    (/\ lastOp = Op("init", "ok", <<>>, <<>>)
     /\ "." \in DOMAIN files
     /\ "_public.info" \notin DOMAIN files
     /\ "y_train" \notin Range(data.columns)) =>
        info["task"] = "Unknown"

\* A labelled dataset constructed without an info file, with and without a
\* column named y_train.
TaskNamedReached ==
    /\ lastOp = Op("init", "ok", <<>>, <<>>)
    /\ "_public.info" \notin DOMAIN files
    /\ "y_train" \in Range(data.columns)
    /\ info["task"] = "regression"

\* The feature columns the type list says are Numerical.
NumericalFeatures ==
    { data.columns[k] : k \in {i \in DOMAIN feat_type :
                                  feat_type[i] = "Numerical"} }

\* C28: when process_data has returned, whatever the normalization policy,
\* the normalization stage has left the rows and the columns of the
\* processed table as they were and has changed no cell outside the
\* Numerical feature columns: the Binary and Categorical feature columns
\* and the label columns are as the stage found them.
NormalizationKeepsOtherColumns ==
    Processed =>
        /\ processed_data.index = prev.index
        /\ processed_data.columns = prev.columns
        /\ \A c \in Range(prev.columns) \ NumericalFeatures :
              \A r \in prev.index :
                  processed_data.val[r][c] = prev.val[r][c]

\* A normalization with a policy has changed a Numerical column of a
\* labelled table that has a Binary or Categorical feature column.
NormalizationKeepsWitness ==
    /\ Processed /\ lastOp.policy[1] \in {"standard", "min-max"}
    /\ "y" \in DOMAIN subsets /\ subsets.y # <<>>
    /\ \E k \in DOMAIN feat_type : feat_type[k] \in {"Binary", "Categorical"}
    /\ \E c \in NumericalFeatures, r \in prev.index :
          processed_data.val[r][c] # prev.val[r][c]

\* ------------------------------------------------- set_data on every key
\* set_data calls with every key on a dataset after construction.
NextSetData ==
    \E values \in SetValues, s \in Keys, processed \in BOOLEAN :
        SetData(values, s, processed)

\* The constructed datasets with one list of feature types, the types
\* having no part in set_data, and with no missing cell or one in f1.
InitSetData ==
    /\ Init
    /\ feat_type = <<"Binary", "Numerical">>
    /\ \A r \in data.index : ~IsNaN(data.val[r]["f2"])

SpecSetData == InitSetData /\ [][NextSetData]_vars

\* The frame of the stated selection of key s whose cells all hold v.
StatedWritten(s, v) ==
    [index |-> StatedRows(s), columns |-> StatedColumns(s),
     val |-> [r \in StatedRows(s) |-> [c \in Range(StatedColumns(s)) |-> v]]]

\* The table t after the value v is written to the stated selection of s.
StatedAssign(t, s, v) ==
    [t EXCEPT !.val =
        [r \in t.index |-> [c \in Range(t.columns) |->
            IF r \in StatedRows(s) /\ c \in Range(StatedColumns(s)) THEN v
            ELSE t.val[r][c]]]]

SetDataRaises ==
    [][\A values \in SetValues, s \in RecognizedKeys, processed \in BOOLEAN :
          (SetData(values, s, processed) /\ lastOp'.status # "ok") =>
              /\ data' = data /\ processed_data' = processed_data
              /\ s \in YKeys /\ "y" \notin DOMAIN subsets
      ]_vars

\* The encoders encoding() binds by name (encoding.likelihood is not
\* modelled).
ValidCodes == {"label", "one-hot"}

\* C30: when process_data was given a valid encoding policy and an
\* imputation policy that is no policy, the imputation stage raises and the
\* call ends there, normalization not run; the raw table, the subset index,
\* the info dictionary and the feature types are as they were and the
\* processed table is the raw table with the encoding alone applied.
UnknownImputationRaises ==
    [][(/\ pc = "imputation"
        /\ args.code \in ValidCodes
        /\ "bogus" \in Range(lastOp'.policy)) =>
          /\ lastOp'.status = "OSError"
          /\ lastOp'.stages = <<"encoding", "imputation">>
          /\ pc' = "idle"
          /\ data' = data /\ subsets' = subsets
          /\ info' = info /\ feat_type' = feat_type
          /\ processed_data' =
                EncodingOf(data, data, subsets, feat_type, args.code).table
      ]_vars

\* A process_data call has ended in the imputation stage with an error
\* after an encoding that changed the table.
UnknownImputationWitness ==
    /\ lastOp.op = "process_data" /\ lastOp.status = "OSError"
    /\ lastOp.stages = <<"encoding", "imputation">>
    /\ "bogus" \in Range(lastOp.policy)
    /\ pc = "idle"
    /\ processed_data # data

\* The encoding stage given a valid policy returns and imputation follows.
ValidEncodingReturns ==
    [][(pc = "encoding" /\ lastOp'.policy[1] \in ValidCodes) =>
          pc' = "imputation" /\ lastOp'.status = "running"]_vars

====
